---- MODULE Spec2Model ----
(***************************************************************************)
(* Model of the AI-judge backend (server/src): the evidence validator, the *)
(* JSON recovery and normalisation of the model reply, the judge_story     *)
(* call-and-retry policy and the /judge request handler with its request   *)
(* log.                                                                    *)
(*                                                                         *)
(* Text is a sequence of symbols.  A symbol is either one structural       *)
(* character ("{", "}", "[", "]", ":", ",", the double quote, blank,       *)
(* newline), one JSON literal ("null", "true", "false", "0", "7") or a     *)
(* chunk of ordinary characters ("summary", "ref", ...).  The Korean fixed *)
(* strings of the source are written as transliterated chunks, the marker  *)
(* words as symbols of their own so that substring tests are real.         *)
(***************************************************************************)
EXTENDS Integers, Sequences, FiniteSets, TLC

\* ------------------------------------------------------------------ text

QUOTE == "\""
WS == {" ", "\n"}

\* text[i], or "" past the end
At(t, i) == IF i >= 1 /\ i <= Len(t) THEN t[i] ELSE ""

\* str.strip(): drop leading and trailing whitespace
Strip(s) ==
    LET idx == {i \in 1..Len(s) : s[i] \notin WS}
    IN  IF idx = {} THEN <<>>
        ELSE LET lo == CHOOSE i \in idx : \A j \in idx : i <= j
                 hi == CHOOSE i \in idx : \A j \in idx : i >= j
             IN  SubSeq(s, lo, hi)

\* `sub in s`
Contains(s, sub) ==
    \E i \in 1..(Len(s) - Len(sub) + 1) : SubSeq(s, i, i + Len(sub) - 1) = sub

\* s.startswith(prefix)
StartsWith(s, prefix) ==
    Len(s) >= Len(prefix) /\ SubSeq(s, 1, Len(prefix)) = prefix

\* ------------------------------------------------- JSON values (json module)

JNone == [t |-> "none"]          \* Python None as "no object" (not a JSON value)
JRaise == [t |-> "raise"]        \* a RecursionError left the decoder (no value)
JNull == [t |-> "null"]
JBool(b) == [t |-> "bool", b |-> b]
JNum(n) == [t |-> "num", n |-> n]
JStr(s) == [t |-> "str", s |-> s]
JArr(a) == [t |-> "arr", a |-> a]
\* a dict: the sequence of its items [k, v] in insertion order, keys distinct
JObj(items) == [t |-> "obj", o |-> items]

IsDict(v) == v.t = "obj"
IsList(v) == v.t = "arr"

\* dict[k] = v : a repeated key keeps its place and takes the later value
PutItem(items, k, v) ==
    CHOOSE r \in
        {IF \E i \in 1..Len(its) : its[i].k = k
         THEN [i \in 1..Len(its) |-> IF its[i].k = k THEN [k |-> k, v |-> v] ELSE its[i]]
         ELSE Append(its, [k |-> k, v |-> v]) : its \in {items}} : TRUE

\* dict.get(k): the value, or None
Get(obj, k) ==
    IF \E i \in 1..Len(obj.o) : obj.o[i].k = k
    THEN obj.o[CHOOSE i \in 1..Len(obj.o) : obj.o[i].k = k].v
    ELSE JNull

\* bool(v)
Truthy(v) ==
    CASE v.t = "none" -> FALSE
      [] v.t = "null" -> FALSE
      [] v.t = "bool" -> v.b
      [] v.t = "num"  -> v.n # 0
      [] v.t = "str"  -> Len(v.s) > 0
      [] v.t = "arr"  -> Len(v.a) > 0
      [] v.t = "obj"  -> Len(v.o) > 0

ParseFail(i) == [ok |-> FALSE, v |-> JNone, n |-> i]
\* the deepest nesting of objects and arrays the decoder parses: entering one
\* container more exceeds the interpreter's recursion limit (RecursionError,
\* which is no JSONDecodeError)
MaxNesting == 4
ParseRaise(i) == [ok |-> FALSE, v |-> JRaise, n |-> i]
ParseOk(v, n) == [ok |-> TRUE, v |-> v, n |-> n]

RECURSIVE SkipWs(_, _)
SkipWs(t, i) == IF At(t, i) \in WS THEN SkipWs(t, i + 1) ELSE i

\* a string literal opening at t[i] = QUOTE; a raw newline inside is refused
\* (strict mode); escapes are not part of the alphabet
ParseString(t, i) ==
    LET closes == {j \in (i + 1)..Len(t) : t[j] = QUOTE}
    IN  IF At(t, i) # QUOTE \/ closes = {} THEN ParseFail(i)
        ELSE LET j == CHOOSE c \in closes : \A d \in closes : c <= d
                 body == SubSeq(t, i + 1, j - 1)
             IN  IF \E m \in 1..Len(body) : body[m] = "\n" THEN ParseFail(i)
                 ELSE ParseOk(JStr(body), j + 1)

RECURSIVE ParseValue(_, _, _)
RECURSIVE ParseMembers(_, _, _, _)
RECURSIVE ParseElements(_, _, _, _)

\* scan_once(s, i): one JSON value starting exactly at i, inside depth containers
ParseValue(t, i, depth) ==
    LET c == At(t, i)
    IN  CASE c = QUOTE   -> ParseString(t, i)
          [] c = "{"     -> LET j == SkipWs(t, i + 1)
                            IN  IF depth >= MaxNesting THEN ParseRaise(i)
                                ELSE IF At(t, j) = "}" THEN ParseOk(JObj(<<>>), j + 1)
                                ELSE ParseMembers(t, j, <<>>, depth + 1)
          [] c = "["     -> LET j == SkipWs(t, i + 1)
                            IN  IF depth >= MaxNesting THEN ParseRaise(i)
                                ELSE IF At(t, j) = "]" THEN ParseOk(JArr(<<>>), j + 1)
                                ELSE ParseElements(t, j, <<>>, depth + 1)
          [] c = "null"  -> ParseOk(JNull, i + 1)
          [] c = "true"  -> ParseOk(JBool(TRUE), i + 1)
          [] c = "false" -> ParseOk(JBool(FALSE), i + 1)
          [] c = "0"     -> ParseOk(JNum(0), i + 1)
          [] c = "7"     -> ParseOk(JNum(7), i + 1)
          [] OTHER       -> ParseFail(i)

\* the members of an object, i at the opening quote of the next key
ParseMembers(t, i, acc, depth) ==
    CHOOSE r \in
        {IF ~key.ok \/ At(t, SkipWs(t, key.n)) # ":" THEN ParseFail(i)
         ELSE CHOOSE r2 \in
                  {IF ~val.ok THEN [val EXCEPT !.n = i]
                   ELSE LET m == SkipWs(t, val.n)
                        IN  CASE At(t, m) = "}" ->
                                     ParseOk(JObj(PutItem(acc, key.v.s, val.v)), m + 1)
                              [] At(t, m) = "," ->
                                     ParseMembers(t, SkipWs(t, m + 1),
                                                  PutItem(acc, key.v.s, val.v), depth)
                              [] OTHER -> ParseFail(i)
                   : val \in {ParseValue(t, SkipWs(t, SkipWs(t, key.n) + 1), depth)}} : TRUE
         : key \in {ParseString(t, i)}} : TRUE

\* the elements of an array, i at the start of the next element
ParseElements(t, i, acc, depth) ==
    CHOOSE r \in
        {IF ~val.ok THEN [val EXCEPT !.n = i]
         ELSE LET m == SkipWs(t, val.n)
              IN  CASE At(t, m) = "]" -> ParseOk(JArr(Append(acc, val.v)), m + 1)
                    [] At(t, m) = "," ->
                           ParseElements(t, SkipWs(t, m + 1), Append(acc, val.v), depth)
                    [] OTHER -> ParseFail(i)
         : val \in {ParseValue(t, i, depth)}} : TRUE

\* json.loads(text): the whole text is one value between optional whitespace
JsonLoads(t) ==
    CHOOSE res \in {IF r.v = JRaise \/ (r.ok /\ SkipWs(t, r.n) > Len(t)) THEN r
                    ELSE ParseFail(1)
                    : r \in {ParseValue(t, SkipWs(t, 1), 0)}} : TRUE

\* _safe_json_loads: the parsed dict, or None; only JSONDecodeError is caught
SafeJsonLoads(t) ==
    CHOOSE res \in {IF r.v = JRaise THEN JRaise
                    ELSE IF r.ok /\ IsDict(r.v) THEN r.v ELSE JNone
                    : r \in {JsonLoads(t)}} : TRUE

RECURSIVE ExtractFrom(_, _)
\* the loop of _extract_json from index on; only JSONDecodeError is caught
ExtractFrom(t, index) ==
    IF index > Len(t) THEN JNone
    ELSE IF t[index] # "{" THEN ExtractFrom(t, index + 1)
    ELSE CHOOSE res \in {IF r.v = JRaise THEN JRaise
                         ELSE IF r.ok /\ IsDict(r.v) THEN r.v
                         ELSE ExtractFrom(t, index + 1)
                         : r \in {ParseValue(t, index, 0)}} : TRUE

\* _extract_json: the dict decoded at the first "{" that decodes, or None
ExtractJson(t) == ExtractFrom(t, 1)

\* ------------------------------------------------------- str() of a value

RECURSIVE PyRepr(_)
RECURSIVE JoinRepr(_, _)
\* repr() of the items of a list or dict, joined by ", "
JoinRepr(a, isDict) ==
    IF Len(a) = 0 THEN <<>>
    ELSE LET one == IF isDict
                    THEN <<"'">> \o a[1].k \o <<"'", ":", " ">> \o PyRepr(a[1].v)
                    ELSE PyRepr(a[1])
         IN  IF Len(a) = 1 THEN one
             ELSE one \o <<",", " ">> \o JoinRepr(Tail(a), isDict)

PyRepr(v) ==
    CASE v.t = "str"  -> <<"'">> \o v.s \o <<"'">>
      [] v.t = "num"  -> IF v.n = 0 THEN <<"0">> ELSE <<"7">>
      [] v.t = "bool" -> IF v.b THEN <<"True">> ELSE <<"False">>
      [] v.t = "arr"  -> <<"[">> \o JoinRepr(v.a, FALSE) \o <<"]">>
      [] v.t = "obj"  -> <<"{">> \o JoinRepr(v.o, TRUE) \o <<"}">>
      [] OTHER        -> <<"None">>

\* str(v)
PyStr(v) == IF v.t = "str" THEN v.s ELSE PyRepr(v)

\* str(v or default).strip(), default a string
StrOr(v, default) == Strip(IF Truthy(v) THEN PyStr(v) ELSE default)

\* ------------------------------------------------------ fixed strings

SUMMARY_MAX_CHARS == 140

\* "beomnyul jamun" (legal advice): the marker every disclaimer carries
MARKER == <<"beomnyul", " ", "jamun">>
\* "beomnyul jamun-i animyeo chamgoyong-imnida." (not legal advice, reference only)
DEFAULT_DISCLAIMER == MARKER \o <<"-i animyeo chamgoyong-imnida.">>
\* " (beomnyul jamun-i anim)"
MARKER_SUFFIX == <<" ", "(">> \o MARKER \o <<"-i anim", ")">>
\* "pandan yoyag-eul jegonghaji mothaetseumnida." (no verdict could be given)
DEFAULT_VERDICT == <<"pandan yoyag-eul jegonghaji mothaetseumnida.">>
\* "ipnyeokdoen sayeon-i eopseumnida." (no story was entered)
NO_STORY == <<"ipnyeokdoen sayeon-i eopseumnida.">>
\* "sayeon-i bieo isseo pandan-eul saengseonghal su eopseumnida." (empty story)
VERDICT_EMPTY == <<"sayeon-i bieo isseo pandan-eul saengseonghal su eopseumnida.">>
\* "OPENAI_API_KEY-ga seoljeongdoeji ana moui pandan-man jegonghamnida."
MOCK_MARKER == <<"moui", " ", "pandan">>
VERDICT_MOCK == <<"OPENAI_API_KEY-ga seoljeongdoeji ana", " ">> \o MOCK_MARKER
                    \o <<"-man jegonghamnida.">>
\* "model hochure silpaehaetseumnida. jamsi hu dasi sidohae juseyo."
CALL_FAILED_PREFIX == <<"model", " ", "hochure", " ", "silpaehaetseumnida">>
VERDICT_CALL_FAILED == CALL_FAILED_PREFIX \o <<".", " ", "jamsi hu dasi sidohae juseyo.">>
\* "model eungdabeul pasinghaji mothaetseumnida. jamsi hu dasi sidohae juseyo."
PARSE_FAILED_PREFIX == <<"model", " ", "eungdabeul", " ", "pasinghaji", " ",
                         "mothaetseumnida">>
VERDICT_PARSE_FAILED == PARSE_FAILED_PREFIX \o <<".", " ", "jamsi hu dasi sidohae juseyo.">>

\* dict keys
K_SUMMARY == <<"summary">>
K_VERDICT == <<"verdict">>
K_DISCLAIMER == <<"disclaimer">>
K_CRIMES == <<"possible_crimes">>
K_TITLE == <<"title">>
K_BASIS == <<"basis">>
K_SEVERITY == <<"severity">>

\* ------------------------------------------------------ normalisation

\* _short_story
ShortStory(story) ==
    LET normalized == Strip(story)
    IN  IF normalized = <<>> THEN NO_STORY
        ELSE IF Len(normalized) > SUMMARY_MAX_CHARS
             THEN SubSeq(normalized, 1, SUMMARY_MAX_CHARS) \o <<"...">>
             ELSE normalized

\* str.lower() on the symbols that have an upper-case form
LowerSym(c) ==
    CASE c \in {"HIGH", "High"}     -> "high"
      [] c \in {"LOW", "Low"}       -> "low"
      [] c \in {"MEDIUM", "Medium"} -> "medium"
      [] c \in {"MINOR"}            -> "minor"
      [] c \in {"MODERATE"}         -> "moderate"
      [] c \in {"MAJOR"}            -> "major"
      [] c \in {"SEVERE"}           -> "severe"
      [] c \in {"CRITICAL"}         -> "critical"
      [] OTHER                      -> c
Lower(s) == [i \in 1..Len(s) |-> LowerSym(s[i])]

SEV_LOW == <<"gyeongmi">>
SEV_MEDIUM == <<"junggan">>
SEV_HIGH == <<"jungdae">>

\* the value is compared as given, neither trimmed nor lower-cased
MutNormalizeSeverityAsGiven(value) ==
    LET normalized == value
    IN  CASE normalized \in {SEV_LOW, <<"low">>, <<"minor">>} -> SEV_LOW
          [] normalized \in {SEV_MEDIUM, <<"medium">>, <<"moderate">>} -> SEV_MEDIUM
          [] normalized \in {SEV_HIGH, <<"high">>, <<"major">>, <<"severe">>,
                             <<"critical">>} -> SEV_HIGH
          [] normalized \in {<<"najeum">>, <<"gyeongmiham">>, <<"gabyeoum">>} -> SEV_LOW
          [] normalized \in {<<"botong">>, <<"junggan-jeongdo">>} -> SEV_MEDIUM
          [] normalized \in {<<"nopeum">>, <<"simgak">>, <<"jungham">>} -> SEV_HIGH
          [] OTHER -> SEV_MEDIUM

\* _normalize_severity
NormalizeSeverity(value) ==
    LET normalized == Lower(Strip(value))
    IN  CASE normalized \in {SEV_LOW, <<"low">>, <<"minor">>} -> SEV_LOW
          [] normalized \in {SEV_MEDIUM, <<"medium">>, <<"moderate">>} -> SEV_MEDIUM
          [] normalized \in {SEV_HIGH, <<"high">>, <<"major">>, <<"severe">>,
                             <<"critical">>} -> SEV_HIGH
          [] normalized \in {<<"najeum">>, <<"gyeongmiham">>, <<"gabyeoum">>} -> SEV_LOW
          [] normalized \in {<<"botong">>, <<"junggan-jeongdo">>} -> SEV_MEDIUM
          [] normalized \in {<<"nopeum">>, <<"simgak">>, <<"jungham">>} -> SEV_HIGH
          [] OTHER -> SEV_MEDIUM

\* the crime an item of possible_crimes yields (lines 178-188)
CrimeOf(item) ==
    [title |-> StrOr(Get(item, K_TITLE), <<>>),
     basis |-> StrOr(Get(item, K_BASIS), <<>>),
     severity |-> NormalizeSeverity(
                      IF Truthy(Get(item, K_SEVERITY))
                      THEN PyStr(Get(item, K_SEVERITY)) ELSE SEV_MEDIUM)]

\* an entry is dropped only when both title and basis are empty
MutKeepsItemEitherField(item) ==
    /\ IsDict(item)
    /\ (StrOr(Get(item, K_TITLE), <<>>) # <<>> \/ StrOr(Get(item, K_BASIS), <<>>) # <<>>)

\* whether the loop keeps the item (lines 176-181)
KeepsItem(item) ==
    /\ IsDict(item)
    /\ StrOr(Get(item, K_TITLE), <<>>) # <<>>
    /\ StrOr(Get(item, K_BASIS), <<>>) # <<>>

RECURSIVE CrimesLoop(_)
\* the for loop over crimes_raw (lines 175-188)
CrimesLoop(items) ==
    IF Len(items) = 0 THEN <<>>
    ELSE (IF KeepsItem(items[1]) THEN <<CrimeOf(items[1])>> ELSE <<>>)
             \o CrimesLoop(Tail(items))

\* possible_crimes of the normalised response (lines 172-188)
NormalizeCrimes(data) ==
    LET got == Get(data, K_CRIMES)
        crimes_raw == IF Truthy(got) THEN got ELSE JArr(<<>>)
    IN  IF IsList(crimes_raw) THEN CrimesLoop(crimes_raw.a) ELSE <<>>

\* the marker is not appended
MutDisclaimerNoAppend(data) ==
    LET text == StrOr(Get(data, K_DISCLAIMER), <<>>)
    IN  IF text # <<>> THEN text ELSE DEFAULT_DISCLAIMER

\* disclaimer of the normalised response (lines 168-170)
NormalizeDisclaimer(data) ==
    LET text == StrOr(Get(data, K_DISCLAIMER), <<>>)
        disclaimer == IF text # <<>> THEN text ELSE DEFAULT_DISCLAIMER
    IN  IF ~Contains(disclaimer, MARKER) THEN disclaimer \o MARKER_SUFFIX
        ELSE disclaimer

\* JudgmentResponse(...)
Judgment(summary, crimes, verdict, disclaimer) ==
    [summary |-> summary, possible_crimes |-> crimes,
     verdict |-> verdict, disclaimer |-> disclaimer]

\* _normalize_response
NormalizeResponse(data, story) ==
    LET s == StrOr(Get(data, K_SUMMARY), <<>>)
        v == StrOr(Get(data, K_VERDICT), <<>>)
    IN  Judgment(IF s # <<>> THEN s ELSE ShortStory(story),
                 NormalizeCrimes(data),
                 IF v # <<>> THEN v ELSE DEFAULT_VERDICT,
                 NormalizeDisclaimer(data))

\* _fallback_response; verdict <<>> stands for None
FallbackResponse(story, verdict) ==
    Judgment(ShortStory(story), <<>>,
             IF verdict # <<>> THEN verdict ELSE VERDICT_MOCK,
             DEFAULT_DISCLAIMER)

\* ------------------------------------------------------ the backend call

\* settings.openai_model (core/config.py)
OPENAI_MODEL == "gpt-5.2"

\* _build_user_prompt
BuildUserPrompt(story, evidence_context) ==
    LET normalized_story == Strip(story)
        Bullet(i) == <<"-", " ">> \o evidence_context[i]
        RECURSIVE Joined(_)
        Joined(i) == IF i > Len(evidence_context) THEN <<>>
                     ELSE IF i = Len(evidence_context) THEN Bullet(i)
                     ELSE Bullet(i) \o <<"\n">> \o Joined(i + 1)
    IN  IF Len(evidence_context) = 0 THEN normalized_story
        ELSE <<"sayeon:", "\n">> \o normalized_story \o <<"\n", "\n">>
                 \o <<"cheombu jeunggeo(metadata):", "\n">> \o Joined(1) \o <<"\n", "\n">>
                 \o <<"juui: cheombu pail-ui wonmun naeyong-eun bunseokaji mothaetgo ...">>

\* the retry keeps structured-output mode
MutKwargsAlwaysStructured(model, user_prompt, force_plain_json) ==
    [model |-> model, user_prompt |-> user_prompt,
     has_response_format |-> TRUE,
     max_completion_tokens |-> 700]

\* _build_completion_kwargs: has_response_format stands for the response_format key
BuildCompletionKwargs(model, user_prompt, force_plain_json) ==
    [model |-> model, user_prompt |-> user_prompt,
     has_response_format |-> ~force_plain_json,
     max_completion_tokens |-> 700]

\* what the backend does with a call: it raises, or answers with a response whose
\* choices are empty, or whose first choice carries a message with this content
OutRaise == [kind |-> "raise"]
OutNoChoices == [kind |-> "nochoices"]
OutMessage(content) == [kind |-> "message", content |-> content]
\* message.content: a str, a list of parts, or anything else (None)
ContentStr(text) == [t |-> "str", s |-> text]
ContentParts(parts) == [t |-> "parts", a |-> parts]
ContentNone == [t |-> "other"]
\* a part of a content list: its text attribute is a str, or is not
PartText(text) == [t |-> "text", s |-> text]
PartOther == [t |-> "other"]

\* _extract_message_text
ExtractMessageText(content) ==
    LET Keeps(part) == part.t = "text" /\ Strip(part.s) # <<>>
        RECURSIVE JoinLines(_, _)
        JoinLines(parts, first) ==
            IF Len(parts) = 0 THEN <<>>
            ELSE IF Keeps(parts[1])
                 THEN (IF first THEN <<>> ELSE <<"\n">>) \o parts[1].s
                          \o JoinLines(Tail(parts), FALSE)
                 ELSE JoinLines(Tail(parts), first)
    IN  CASE content.t = "str"   -> content.s
          [] content.t = "parts" -> JoinLines(content.a, TRUE)
          [] OTHER               -> <<>>

\* `_safe_json_loads(content) or _extract_json(content)` (lines 266, 298)
ParseReply(text) ==
    CHOOSE res \in {IF whole = JRaise THEN JRaise
                    ELSE IF Truthy(whole) THEN whole ELSE ExtractJson(text)
                    : whole \in {SafeJsonLoads(text)}} : TRUE

\* `if data:` (lines 267, 299, 342): a dict counts when it is not empty
HasData(data) == data # JRaise /\ Truthy(data)

\* a call error is retried like a parse failure
MutPrimaryStepRetriesOnError(out) ==
    CASE out.kind = "raise"     -> [go |-> "retry", data |-> JNone, reason |-> "none"]
      [] out.kind = "nochoices" -> [go |-> "raise", data |-> JNone, reason |-> "IndexError"]
      [] OTHER ->
           CHOOSE res \in
               {IF data = JRaise
                THEN [go |-> "raise", data |-> JNone, reason |-> "RecursionError"]
                ELSE IF HasData(data) THEN [go |-> "return", data |-> data, reason |-> "none"]
                ELSE [go |-> "retry", data |-> JNone, reason |-> "none"]
                : data \in {ParseReply(ExtractMessageText(out.content))}} : TRUE

\* _request_json_data after the primary call (lines 252-284): "raise" lets the
\* exception of choices[0] escape, "retry" issues the second call
PrimaryStep(out) ==
    CASE out.kind = "raise"     -> [go |-> "return", data |-> JNone, reason |-> "call_error"]
      [] out.kind = "nochoices" -> [go |-> "raise", data |-> JNone, reason |-> "IndexError"]
      [] OTHER ->
           CHOOSE res \in
               {IF data = JRaise
                THEN [go |-> "raise", data |-> JNone, reason |-> "RecursionError"]
                ELSE IF HasData(data) THEN [go |-> "return", data |-> data, reason |-> "none"]
                ELSE [go |-> "retry", data |-> JNone, reason |-> "none"]
                : data \in {ParseReply(ExtractMessageText(out.content))}} : TRUE

\* _request_json_data after the retry call (lines 285-310)
RetryStep(out) ==
    CASE out.kind = "raise"     -> [go |-> "return", data |-> JNone, reason |-> "call_error"]
      [] out.kind = "nochoices" -> [go |-> "raise", data |-> JNone, reason |-> "IndexError"]
      [] OTHER ->
           CHOOSE res \in
               {IF data = JRaise
                THEN [go |-> "raise", data |-> JNone, reason |-> "RecursionError"]
                ELSE IF HasData(data) THEN [go |-> "return", data |-> data, reason |-> "none"]
                ELSE [go |-> "return", data |-> JNone, reason |-> "parse_error"]
                : data \in {ParseReply(ExtractMessageText(out.content))}} : TRUE

\* the reason is not looked at: every failure reads as a call failure
MutJudgeReturnIgnoresReason(data, reason, story) ==
    IF HasData(data) THEN NormalizeResponse(data, story)
    ELSE FallbackResponse(story, VERDICT_CALL_FAILED)

\* judge_story once _request_json_data has returned (lines 342-346)
JudgeReturn(data, reason, story) ==
    IF HasData(data) THEN NormalizeResponse(data, story)
    ELSE IF reason = "call_error" THEN FallbackResponse(story, VERDICT_CALL_FAILED)
    ELSE FallbackResponse(story, VERDICT_PARSE_FAILED)

\* a client is built without a key
MutBuildClientWithoutKey(api_key) == "AsyncOpenAI"

\* _build_client: None without settings.openai_api_key
BuildClient(api_key) == IF ~api_key THEN "None" ELSE "AsyncOpenAI"

\* the client is looked at before the story
MutEntryStepClientFirst(stripped, client) ==
    IF client = "None" THEN "no_client"
    ELSE IF stripped = <<>> THEN "empty"
    ELSE "call"

\* judge_story before any call (lines 323-332)
EntryStep(stripped, client) ==
    IF stripped = <<>> THEN "empty"
    ELSE IF client = "None" THEN "no_client"
    ELSE "call"

\* ------------------------------------------------------ evidence files

EVIDENCE_MAX_FILES == 3
EVIDENCE_MAX_FILE_BYTES == 8 * 1024 * 1024
ALLOWED_EVIDENCE_EXTENSIONS ==
    {<<"jpg">>, <<"jpeg">>, <<"png">>, <<"webp">>, <<"gif">>, <<"bmp">>,
     <<"heic">>, <<"heif">>, <<"pdf">>}

\* str.lower() on the symbols of file names
LowerExtSym(c) ==
    CASE c = "JPG" -> "jpg"
      [] c = "PDF" -> "pdf"
      [] c = "EXE" -> "exe"
      [] OTHER     -> c

\* the part after the last "/" (str.split("/")[-1])
LastComponent(name) ==
    LET seps == {i \in 1..Len(name) : name[i] = "/"}
    IN  IF seps = {} THEN name
        ELSE SubSeq(name, (CHOOSE i \in seps : \A j \in seps : i >= j) + 1, Len(name))

\* _sanitize_filename; <<>> stands for None as for ""
SanitizeFilename(filename) ==
    LET normalized == Strip([i \in 1..Len(filename) |->
                                IF filename[i] = "\\" THEN "/" ELSE filename[i]])
    IN  IF normalized = <<>> THEN <<"unnamed">>
        ELSE IF LastComponent(normalized) = <<>> THEN <<"unnamed">>
        ELSE LastComponent(normalized)

\* _extract_extension: os.path.splitext, lowered, leading dots dropped
ExtractExtension(filename) ==
    LET dots == {i \in 1..Len(filename) : filename[i] = "."}
        last == CHOOSE i \in dots : \A j \in dots : i >= j
        leading == \A j \in 1..(last - 1) : filename[j] = "."
        ext == IF dots = {} \/ leading THEN <<>>
               ELSE SubSeq(filename, last + 1, Len(filename))
    IN  [i \in 1..Len(ext) |-> LowerExtSym(ext[i])]

\* the descriptor line of file `index` (lines 87-91)
DescriptorLine(index, file, filename, extension, size) ==
    <<ToString(index), ".", " ">> \o filename
        \o <<" ", "(", IF extension = <<"pdf">> THEN "PDF" ELSE "imiji", ",", " ">>
        \o Strip(IF file.content_type = <<>> THEN <<"unknown">> ELSE file.content_type)
        \o <<",", " ", ToString(size), " ", "bytes", ")">>

NoError == [kind |-> "none", name |-> <<>>]
\* EvidenceValidationError with its message: the kind of message and the file named
ValidationError(kind, name) == [kind |-> kind, name |-> name]
\* an exception that is no EvidenceValidationError (a failed read)
ReadError == [kind |-> "read_error", name |-> <<>>]
IsValidationError(e) == e.kind \in {"too_many", "unsupported", "empty", "too_large"}

\* the content is read before the extension is looked at
MutFileStepReadsFirst(index, file) ==
    LET filename == SanitizeFilename(file.filename)
        extension == ExtractExtension(filename)
    IN  IF file.read_raises
        THEN [read |-> TRUE, error |-> ReadError, line |-> <<>>]
        ELSE IF extension \notin ALLOWED_EVIDENCE_EXTENSIONS
        THEN [read |-> TRUE, error |-> ValidationError("unsupported", filename), line |-> <<>>]
        ELSE IF file.size <= 0
        THEN [read |-> TRUE, error |-> ValidationError("empty", filename), line |-> <<>>]
        ELSE IF file.size > EVIDENCE_MAX_FILE_BYTES
        THEN [read |-> TRUE, error |-> ValidationError("too_large", filename), line |-> <<>>]
        ELSE [read |-> TRUE, error |-> NoError,
              line |-> DescriptorLine(index, file, filename, extension, file.size)]

\* one pass of the for loop (lines 73-91) on a file whose read, if it happens,
\* succeeds: the error raised, or the line appended
FileStep(index, file) ==
    LET filename == SanitizeFilename(file.filename)
        extension == ExtractExtension(filename)
    IN  IF extension \notin ALLOWED_EVIDENCE_EXTENSIONS
        THEN [read |-> FALSE, error |-> ValidationError("unsupported", filename), line |-> <<>>]
        ELSE IF file.read_raises
        THEN [read |-> TRUE, error |-> ReadError, line |-> <<>>]
        ELSE IF file.size <= 0
        THEN [read |-> TRUE, error |-> ValidationError("empty", filename), line |-> <<>>]
        ELSE IF file.size > EVIDENCE_MAX_FILE_BYTES
        THEN [read |-> TRUE, error |-> ValidationError("too_large", filename), line |-> <<>>]
        ELSE [read |-> TRUE, error |-> NoError,
              line |-> DescriptorLine(index, file, filename, extension, file.size)]

\* an exception of close that escaped (the code lets none escape)
CloseError == [kind |-> "close_error", name |-> <<>>]

\* the loop of the finally block (lines 93-97) and of _close_upload_files: close is
\* attempted on every file in turn, `except Exception: pass` around each attempt
CloseFiles(fs, cl) ==
    LET RECURSIVE CloseFrom(_, _)
        CloseFrom(i, attempts) ==
            IF i > Len(fs) THEN [closes |-> attempts, error |-> NoError]
            ELSE IF fs[i].close_raises
                 THEN CloseFrom(i + 1, [attempts EXCEPT ![i] = @ + 1])   \* pass
                 ELSE CloseFrom(i + 1, [attempts EXCEPT ![i] = @ + 1])
    IN  CloseFrom(1, cl)

\* the limit itself is refused
MutTooManyFilesAtLimit(fs) == Len(fs) >= EVIDENCE_MAX_FILES

\* whether the count check (lines 67-68) raises
TooManyFiles(fs) == Len(fs) > EVIDENCE_MAX_FILES

\* ------------------------------------------------------------------ state

VARIABLES
    api_key,           \* settings.openai_api_key is set
    backend,           \* the outcomes a call of the completion backend can have
    jpc,               \* judge_story: where it is
    story,             \* judge_story: its story argument
    evidence_context,  \* judge_story: its evidence_context argument
    calls,             \* the kwargs of the backend calls made, in order
    responses,         \* the outcomes of the backend calls that have ended
    data,              \* the dict _request_json_data returned, or None
    result,            \* the JudgmentResponse judge_story returned
    epc,               \* build_evidence_context: where it is
    files,             \* build_evidence_context: the files it was given
    eidx,              \* build_evidence_context: the loop index
    reads,             \* how often each file was read
    closes,            \* how often close was attempted on each file
    context_lines,     \* build_evidence_context: the lines so far
    eerror,            \* the exception build_evidence_context raises
    rpc,               \* judge (the /judge handler): where it is
    request,           \* judge: the request being handled
    payload,           \* judge: the story after _parse_story_and_evidence
    udid,              \* judge: what _extract_udid returned
    request_log,       \* judge: the JudgeRequestLog object in the session
    exc,               \* judge: the exception raised while the request is handled
    logs,              \* the committed rows of judge_request_log
    users,             \* the committed rows of app_user
    slack,             \* the Slack events scheduled, in order
    replies,           \* the HTTP responses given, in order
    clock,             \* what datetime.utcnow() returns
    logins,            \* the responses of /user/login, in order
    delivered,         \* the number of scheduled Slack tasks that have run
    workers            \* the server processes on one database: the request each serves

jvars == <<jpc, story, evidence_context, calls, responses, data, result>>
evars == <<epc, files, eidx, reads, closes, context_lines, eerror>>
cvars == <<api_key, backend>>
hvars == <<rpc, request, payload, udid, request_log, exc>>
dvars == <<logs, users, slack, replies>>
rvars == <<hvars, dvars>>
uvars == <<clock, logins, delivered, workers>>
vars == <<cvars, jvars, evars, rvars, uvars>>

NoJudgment == [none |-> TRUE]

\* ------------------------------------------------------ judge_story

\* lines 323-336: the early returns, or the primary call is issued
JudgeEnter ==
    /\ jpc = "start"
    /\ LET stripped == Strip(story)
           go == EntryStep(stripped, BuildClient(api_key))
       IN  CASE go = "empty" ->
                  /\ result' = FallbackResponse(stripped, VERDICT_EMPTY)
                  /\ jpc' = "done"
                  /\ UNCHANGED calls
             [] go = "no_client" ->
                  /\ result' = FallbackResponse(stripped, <<>>)
                  /\ jpc' = "done"
                  /\ UNCHANGED calls
             [] OTHER ->
                  /\ calls' = Append(calls, BuildCompletionKwargs(OPENAI_MODEL,
                                  BuildUserPrompt(stripped, evidence_context), FALSE))
                  /\ jpc' = "primary"
                  /\ UNCHANGED result
    /\ UNCHANGED <<cvars, uvars, story, evidence_context, responses, data, evars, rvars>>

\* the primary call ends (lines 253-284) and judge_story goes on (lines 342-346)
PrimaryEnds ==
    /\ jpc = "primary"
    /\ \E out \in backend :
         \E step \in {PrimaryStep(out)} :
             /\ responses' = Append(responses, out)
             /\ data' = step.data
             /\ CASE step.go = "retry" ->
                       /\ calls' = Append(calls, BuildCompletionKwargs(OPENAI_MODEL,
                                       BuildUserPrompt(Strip(story), evidence_context), TRUE))
                       /\ jpc' = "retry"
                       /\ UNCHANGED result
                  [] step.go = "raise" ->
                       /\ jpc' = "raised"
                       /\ UNCHANGED <<calls, result>>
                  [] OTHER ->
                       /\ result' = JudgeReturn(step.data, step.reason, Strip(story))
                       /\ jpc' = "done"
                       /\ UNCHANGED calls
    /\ UNCHANGED <<cvars, uvars, story, evidence_context, evars, rvars>>

\* the retry call ends (lines 286-310) and judge_story goes on (lines 342-346)
RetryEnds ==
    /\ jpc = "retry"
    /\ \E out \in backend :
         \E step \in {RetryStep(out)} :
             /\ responses' = Append(responses, out)
             /\ data' = step.data
             /\ IF step.go = "raise"
                THEN /\ jpc' = "raised"
                     /\ UNCHANGED result
                ELSE /\ result' = JudgeReturn(step.data, step.reason, Strip(story))
                     /\ jpc' = "done"
    /\ UNCHANGED <<cvars, uvars, story, evidence_context, calls, evars, rvars>>

JudgeNext == JudgeEnter \/ PrimaryEnds \/ RetryEnds

\* ------------------------------------------------------ build_evidence_context

\* lines 66-70: the count check, which raises before the try block is entered
EvidenceEnter ==
    /\ epc = "start"
    /\ IF TooManyFiles(files)
       THEN /\ eerror' = ValidationError("too_many", <<>>)
            /\ epc' = "raised"
       ELSE /\ epc' = IF Len(files) = 0 THEN "finally" ELSE "loop"
            /\ UNCHANGED eerror
    /\ eidx' = 1
    /\ context_lines' = <<>>
    /\ UNCHANGED <<cvars, uvars, jvars, files, reads, closes, rvars>>

\* lines 72-91: one file; an exception leaves the loop for the finally block
EvidenceFile ==
    /\ epc = "loop"
    /\ LET step == FileStep(eidx, files[eidx])
       IN  /\ reads' = [reads EXCEPT ![eidx] = @ + (IF step.read THEN 1 ELSE 0)]
           /\ IF step.error.kind # "none"
              THEN /\ eerror' = step.error
                   /\ epc' = "finally"
                   /\ UNCHANGED <<eidx, context_lines>>
              ELSE /\ context_lines' = Append(context_lines, step.line)
                   /\ eidx' = eidx + 1
                   /\ epc' = IF eidx = Len(files) THEN "finally" ELSE "loop"
                   /\ UNCHANGED eerror
    /\ UNCHANGED <<cvars, uvars, jvars, files, closes, rvars>>

\* lines 92-99: close every file, an Exception of close passed over; then the
\* pending exception goes on, or the lines are returned
EvidenceFinally ==
    /\ epc = "finally"
    /\ LET done == CloseFiles(files, closes)
           pending == IF done.error.kind # "none" THEN done.error ELSE eerror
       IN  /\ closes' = done.closes
           /\ eerror' = pending
           /\ epc' = IF pending.kind = "none" THEN "returned" ELSE "raised"
    /\ UNCHANGED <<cvars, uvars, jvars, files, eidx, reads, context_lines, rvars>>

EvidenceNext == EvidenceEnter \/ EvidenceFile \/ EvidenceFinally

\* ------------------------------------------------------ inputs

Lit(s) == <<QUOTE>> \o s \o <<QUOTE>>
Member(k, valueText) == Lit(k) \o <<":">> \o valueText
Braces(body) == <<"{">> \o body \o <<"}">>

\* {"summary":"yoyak","possible_crimes":[],"verdict":"pandan",
\*  "disclaimer":"beomnyul jamun-i animnida."}
T_FULL ==
    Braces(Member(K_SUMMARY, Lit(<<"yoyak">>)) \o <<",">>
           \o Member(K_CRIMES, <<"[", "]">>) \o <<",">>
           \o Member(K_VERDICT, Lit(<<"pandan">>)) \o <<",">>
           \o Member(K_DISCLAIMER, Lit(MARKER \o <<"-i animnida.">>)))
\* the same object after prose and inside a markdown fence
T_FENCED == <<"gyeolgwaimnida.", "\n", "~~~", "json", "\n">> \o T_FULL \o <<"\n", "~~~">>
T_EMPTY_OBJECT == <<"{", "}">>
T_PROSE == <<"not-json">>
\* an object cut off by the token limit
T_CUT == <<"{">> \o Member(K_SUMMARY, Lit(<<"yoyak">>)) \o <<",">>
\* [{"verdict":"pandan"}]: valid JSON that is no object, with an object inside
T_LIST == <<"[">> \o Braces(Member(K_VERDICT, Lit(<<"pandan">>))) \o <<"]">>
\* {"note": 7}: none of the expected keys
T_OTHER_KEY == Braces(Member(<<"note">>, <<"7">>))
\* a reply whose verdict reads like the call-failed fallback
T_VERDICT_LIKE_FAILURE ==
    Braces(Member(K_VERDICT, Lit(VERDICT_CALL_FAILED)))
\* a reply whose verdict only begins like the call-failed fallback
T_VERDICT_PREFIXED ==
    Braces(Member(K_VERDICT, Lit(CALL_FAILED_PREFIX \o <<"-jiman", " ", "jeoldo-e haedanghamnida.">>)))
\* the test's crimes: one good entry with severity "high", one with an empty title
T_CRIMES ==
    Braces(Member(K_CRIMES,
        <<"[">> \o Braces(Member(K_TITLE, Lit(<<"jeoldo">>)) \o <<",">>
                          \o Member(K_BASIS, Lit(<<"near", " ", "theft">>)) \o <<",">>
                          \o Member(K_SEVERITY, Lit(<<"high">>)))
                \o <<",", " ">>
                \o Braces(Member(K_TITLE, Lit(<<>>)) \o <<",">>
                          \o Member(K_BASIS, Lit(<<"bin jemok">>)))
                \o <<"]">>))

\* the values a reply gives its disclaimer, as JSON text
DisclaimerTexts ==
    {Lit(<<"chamgoyong annae">>),               \* no marker
     Lit(<<" ", "chamgoyong", " ">>),           \* no marker, padded
     Lit(<<" ", " ">>),                         \* blank
     Lit(<<>>),
     Lit(<<"beomnyul", " ", " ", "jamun">>),    \* the marker's words, two blanks
     Lit(<<" ">> \o MARKER \o <<"-i anim">>),   \* with the marker
     <<"null">>, <<"0">>, <<"7">>,
     <<"[">> \o Lit(MARKER) \o <<"]">>}         \* a list: str() of it has the marker
T_DISCLAIMER(d) == Braces(Member(K_DISCLAIMER, d))

JudgeTexts ==
    {<<>>, T_FULL, T_FENCED, T_EMPTY_OBJECT, T_PROSE, T_CUT, T_LIST, T_OTHER_KEY,
     T_VERDICT_LIKE_FAILURE, T_CRIMES}
        \cup {T_DISCLAIMER(d) : d \in DisclaimerTexts}

JudgeOutcomes ==
    {OutRaise, OutNoChoices, OutMessage(ContentNone),
     OutMessage(ContentParts(<<PartText(<<" ">>), PartOther, PartText(T_FULL)>>)),
     OutMessage(ContentParts(<<PartText(<<"{">>), PartText(<<"}">>)>>))}
        \cup {OutMessage(ContentStr(t)) : t \in JudgeTexts}

\* a story longer than the summary limit
LongStory == [i \in 1..(SUMMARY_MAX_CHARS + 1) |-> "c"]
Stories ==
    {<<>>, <<" ", "\n">>, <<"c", "h", "i">>, <<" ", "s", "a", "y", " ">>, LongStory}
EvidenceContexts == {<<>>, <<<<"1", ".", " ", "photo", ".", "jpg">>>>}

\* an uploaded file: its name (<<>> for None), the size of what read() returns,
\* its declared content type (<<>> for None), whether read() or close() raises
File(filename, size, content_type, read_raises, close_raises) ==
    [filename |-> filename, size |-> size, content_type |-> content_type,
     read_raises |-> read_raises, close_raises |-> close_raises]
F_PHOTO == File(<<"photo", ".", "jpg">>, 11, <<"image/jpeg">>, FALSE, FALSE)
F_PDF == File(<<"C:", "\\", "docs", "\\", "document", ".", "PDF">>, 8, <<>>, FALSE, TRUE)
F_EXE == File(<<"malware", ".", "exe">>, 5, <<"application/octet-stream">>, FALSE, FALSE)
F_EMPTY == File(<<"empty", ".", "png">>, 0, <<"image/png">>, FALSE, FALSE)
F_LIMIT == File(<<"limit", ".", "gif">>, EVIDENCE_MAX_FILE_BYTES, <<"image/gif">>, FALSE, FALSE)
F_BIG == File(<<"big", ".", "gif">>, EVIDENCE_MAX_FILE_BYTES + 1, <<"image/gif">>, FALSE, TRUE)
F_BROKEN == File(<<"broken", ".", "webp">>, 3, <<" ", "image/webp">>, TRUE, TRUE)
F_NONAME == File(<<>>, 4, <<"image/png">>, FALSE, FALSE)
FileKinds == {F_PHOTO, F_PDF, F_EXE, F_EMPTY, F_LIMIT, F_BIG, F_BROKEN, F_NONAME}

\* the longest sequence of files given to build_evidence_context
MaxFiles == 4
SeqsUpTo(S, n) == UNION {[1..k -> S] : k \in 0..n}

\* the values a crime entry gives a field; JNone: the key is missing
TitleValues ==
    {JNone, JStr(<<>>), JStr(<<" ", "\n">>), JStr(<<" ", "jeoldo", " ">>), JNum(0), JNum(7)}
BasisValues == {JNone, JNull, JStr(<<"geun", " ", "geo">>)}
SeverityValues == {JNone, JStr(<<" ", "HIGH">>)}
\* a dict of the fields that are present
Fields(pairs) ==
    LET RECURSIVE Build(_)
        Build(i) == IF i > Len(pairs) THEN <<>>
                    ELSE (IF pairs[i].v = JNone THEN <<>> ELSE <<pairs[i]>>) \o Build(i + 1)
    IN  JObj(Build(1))
CrimeItems ==
    {Fields(<<[k |-> K_TITLE, v |-> t], [k |-> K_BASIS, v |-> b], [k |-> K_SEVERITY, v |-> sv]>>)
        : t \in TitleValues, b \in BasisValues, sv \in SeverityValues}
    \cup {JStr(<<"jeoldo">>), JNum(7), JNull}
\* the longest possible_crimes array
MaxCrimes == 2
\* what a reply gives as possible_crimes; JNone: the key is missing
CrimesValues ==
    {JNone, JNull, JStr(<<"jeoldo">>), JNum(7), Fields(<<[k |-> K_TITLE, v |-> JStr(<<"jeoldo">>)]>>)}
        \cup {JArr(a) : a \in SeqsUpTo(CrimeItems, MaxCrimes)}
\* the words a severity is given as, with their upper-case forms
SeverityWords ==
    {"gyeongmi", "low", "minor", "najeum", "gyeongmiham", "gabyeoum",
     "junggan", "medium", "moderate", "botong", "junggan-jeongdo",
     "jungdae", "high", "major", "severe", "critical", "nopeum", "simgak", "jungham",
     "LOW", "MINOR", "MEDIUM", "MODERATE", "HIGH", "High", "MAJOR", "SEVERE", "CRITICAL",
     "extreme", "gyeong"}
\* what a crime entry gives as severity; JNone: the key is missing
SeverityInputs ==
    {JStr(<<w>>) : w \in SeverityWords}
        \cup {JStr(<<" ", w, "\n">>) : w \in SeverityWords}
        \cup {JNone, JNull, JStr(<<>>), JStr(<<" ">>), JStr(<<"high", " ", "risk">>),
              JNum(0), JNum(7), JBool(FALSE), JBool(TRUE), JArr(<<>>),
              JArr(<<JStr(<<"high">>)>>)}
\* the replies with one usable crime entry of every severity
SeverityObjects ==
    {Fields(<<[k |-> K_VERDICT, v |-> JStr(<<"pandan">>)],
              [k |-> K_CRIMES,
               v |-> JArr(<<Fields(<<[k |-> K_TITLE, v |-> JStr(<<"jeoldo">>)],
                                     [k |-> K_BASIS, v |-> JStr(<<"geun", " ", "geo">>)],
                                     [k |-> K_SEVERITY, v |-> sv]>>)>>)]>>)
        : sv \in SeverityInputs}
NormalizeObjects ==
    {Fields(<<[k |-> K_VERDICT, v |-> JStr(<<"pandan">>)], [k |-> K_CRIMES, v |-> c]>>)
        : c \in CrimesValues}
        \cup SeverityObjects

\* ------------------------------------------------------ /judge: the handler

STORY_MIN_LENGTH == 3
STORY_MAX_LENGTH == 5000
ERROR_MESSAGE_MAX_CHARS == 2000
ANONYMOUS == <<"Anonymous">>

\* a nullable text column or argument
Null == [null |-> TRUE, text |-> <<>>]
Text(t) == [null |-> FALSE, text |-> t]

\* the minimum length is not enforced
MutStoryIsValidNoMinimum(s) == Len(s) <= STORY_MAX_LENGTH

\* the field constraints of StoryRequest.story and of the story form field
StoryIsValid(s) == Len(s) >= STORY_MIN_LENGTH /\ Len(s) <= STORY_MAX_LENGTH

\* an item of the evidence_files form field: an upload, or a plain string
Upload(file) == [is_upload |-> TRUE, file |-> file]
Placeholder == [is_upload |-> FALSE, file |-> [filename |-> <<"string">>]]

\* the uploads among the form items, in order (lines 44-48)
UploadsOf(items) ==
    LET RECURSIVE From(_)
        From(i) == IF i > Len(items) THEN <<>>
                   ELSE (IF items[i].is_upload THEN <<items[i].file>> ELSE <<>>) \o From(i + 1)
    IN  From(1)

\* the form validation of the signature (lines 141-142), then
\* _parse_story_and_evidence: the status of the HTTPException raised (0: none),
\* the story and the files
ParseStoryAndEvidence(r) ==
    IF r.multipart
    THEN IF r.has_story /\ ~StoryIsValid(r.story)
         THEN [code |-> 422, story |-> <<>>, files |-> <<>>]
         ELSE [code |-> 0,
               story |-> IF r.has_story THEN Strip(r.story) ELSE <<>>,
               files |-> UploadsOf(r.items)]
    ELSE IF r.body = "not_json"
         THEN [code |-> 400, story |-> <<>>, files |-> <<>>]
         ELSE IF r.body = "not_story" \/ ~StoryIsValid(r.story)
         THEN [code |-> 422, story |-> <<>>, files |-> <<>>]
         ELSE [code |-> 0, story |-> r.story, files |-> <<>>]

\* _extract_udid
ExtractUdid(header) == IF Strip(header) = <<>> THEN ANONYMOUS ELSE Strip(header)

\* a row of app_user; the id is the autoincremented primary key
UserRow(id, u, now) == [id |-> id, udid |-> u, created_at |-> now, last_login_at |-> now]
\* select(User).where(User.udid == udid): the positions of the rows found
FindUser(table, u) == {i \in 1..Len(table) : table[i].udid = u}

\* _upsert_user: a row is inserted only when the udid has none
UpsertUser(table, u, now) ==
    IF FindUser(table, u) = {} THEN Append(table, UserRow(Len(table) + 1, u, now)) ELSE table

\* _is_judgment_failure
IsJudgmentFailure(res) ==
    \/ StartsWith(Strip(res.verdict), CALL_FAILED_PREFIX)
    \/ StartsWith(Strip(res.verdict), PARSE_FAILED_PREFIX)

\* the JudgeRequestLog built at lines 163-170; completed_at: whether it is set
NewRequestLog(id, u, s, evidence, now) ==
    [id |-> id, user_udid |-> u, story |-> s, evidence_count |-> Len(evidence),
     created_at |-> now,
     status |-> "processing", result_summary |-> Null, result_verdict |-> Null,
     result_json |-> NoJudgment, error_message |-> Null, completed_at |-> FALSE]
NoRequestLog == [id |-> 0]

\* lines 192-200: the fields set from the result of judge_story
WithResult(log, res) ==
    [log EXCEPT !.status = IF IsJudgmentFailure(res) THEN "failed" ELSE "completed",
                !.error_message = IF IsJudgmentFailure(res) THEN Text(res.verdict) ELSE @,
                !.result_summary = Text(res.summary),
                !.result_verdict = Text(res.verdict),
                !.result_json = res,
                !.completed_at = TRUE]

\* lines 221-223: the fields set by the except block
WithException(log, e) ==
    [log EXCEPT !.status = "failed",
                !.error_message =
                    Text(SubSeq(e.text, 1, IF Len(e.text) > ERROR_MESSAGE_MAX_CHARS
                                           THEN ERROR_MESSAGE_MAX_CHARS ELSE Len(e.text))),
                !.completed_at = TRUE]

\* session.add(request_log); session.commit()
Commit(table, log) ==
    IF log.id = Len(table) + 1 THEN Append(table, log) ELSE [table EXCEPT ![log.id] = log]

\* the arguments _schedule_judge_slack_log is called with
SlackEvent(event, log, status, reason) ==
    [event |-> event, request |-> log.id, udid |-> log.user_udid,
     evidence_count |-> log.evidence_count, status |-> status, reason |-> reason]

NoException == [kind |-> "none", text |-> <<>>]
\* response.choices[0] of an empty list, raised out of judge_story (service.py line 264)
IndexError == [kind |-> "IndexError", text |-> <<"list index out of range">>]
\* raised by the decoder on a text nested too deep, out of judge_story (lines 266, 298)
RecursionError == [kind |-> "RecursionError", text |-> <<"maximum recursion depth exceeded">>]
\* a failed reload of request_log, whose attributes the commit expired
ReloadError == [kind |-> "OperationalError", text |-> <<"database is locked">>]
\* the same with a text (the statement and its parameters) longer than the limit
LongReloadError ==
    [kind |-> "OperationalError", text |-> [i \in 1..(ERROR_MESSAGE_MAX_CHARS + 1) |-> "e"]]
\* what a read of the row after a commit can do: succeed, or raise
ReloadOutcomes == {NoException, ReloadError, LongReloadError}

\* a JSON request: whether the body parses and has the shape, and its story
JsonRequest(body, s, header) ==
    [multipart |-> FALSE, has_story |-> FALSE, story |-> s, items |-> <<>>,
     body |-> body, udid_header |-> header]
\* a multipart request: the story field (has_story: it is sent) and the file items
FormRequest(has_story, s, items, header) ==
    [multipart |-> TRUE, has_story |-> has_story, story |-> s, items |-> items,
     body |-> "form", udid_header |-> header]
\* a story one character over the limit
TooLongStory == [i \in 1..(STORY_MAX_LENGTH + 1) |-> "c"]
UDID_1 == <<"u", "d", "i", "d", "-", "0", "0", "1">>
UDID_2 == <<"u", "d", "i", "d", "-", "0", "0", "2">>
UdidHeaders == {<<>>, <<" ">> \o UDID_1 \o <<" ">>}
Requests ==
    UNION {{JsonRequest("not_json", <<>>, h),
            JsonRequest("not_story", <<>>, h),
            JsonRequest("story", <<"h", "i">>, h),
            JsonRequest("story", <<"c", "h", "i">>, h),
            JsonRequest("story", <<" ", " ", " ">>, h),
            FormRequest(FALSE, <<>>, <<Upload(F_PHOTO)>>, h),
            FormRequest(TRUE, <<"h", "i">>, <<>>, h),
            FormRequest(TRUE, <<" ", "a", " ">>, <<Upload(F_PDF)>>, h),
            FormRequest(TRUE, <<" ", "c", "h", "i", " ">>, <<>>, h),
            FormRequest(TRUE, <<"c", "h", "i">>, <<Placeholder, Upload(F_PHOTO)>>, h),
            FormRequest(TRUE, <<"c", "h", "i">>, <<Upload(F_PHOTO), Upload(F_EXE)>>, h),
            FormRequest(TRUE, <<"c", "h", "i">>, <<Upload(F_BROKEN), Upload(F_EXE)>>, h),
            JsonRequest("story", TooLongStory, h),
            FormRequest(TRUE, TooLongStory, <<>>, h),
            FormRequest(TRUE, <<"c", "h", "i">>,
                        <<Upload(F_PHOTO), Upload(F_PHOTO), Upload(F_PHOTO), Upload(F_PHOTO)>>, h)}
           : h \in UdidHeaders}
\* the outcomes of a backend call while requests are served
RouterOutcomes ==
    {OutRaise, OutNoChoices, OutMessage(ContentStr(T_FULL)), OutMessage(ContentStr(T_PROSE)),
     OutMessage(ContentStr(T_VERDICT_LIKE_FAILURE)), OutMessage(ContentStr(T_VERDICT_PREFIXED))}
\* the number of requests served
MaxRequests == 2

NoRequest == [multipart |-> FALSE]
Reply(code, res) == [code |-> code, result |-> res]

IdleHandler ==
    /\ rpc = "idle"
    /\ request = NoRequest
    /\ payload = <<>>
    /\ udid = <<>>
    /\ request_log = NoRequestLog
    /\ exc = NoException
\* the server processes that share the database
MaxWorkers == 2
\* a process between two requests; answers: the status codes it has given
IdleWorker == [pc |-> "idle", kind |-> "none", udid |-> <<>>, seen |-> 0, now |-> 0,
               answers |-> <<>>]

IdleRouter ==
    /\ IdleHandler
    /\ logs = <<>>
    /\ users = <<>>
    /\ slack = <<>>
    /\ replies = <<>>
    /\ clock = 0
    /\ logins = <<>>
    /\ delivered = 0
    /\ workers = [w \in 1..MaxWorkers |-> IdleWorker]

\* lines 137-148: a request arrives and is parsed
Receive ==
    /\ rpc = "idle"
    /\ Len(replies) < MaxRequests
    /\ \E r \in Requests :
         \E parsed \in {ParseStoryAndEvidence(r)} :
             /\ request' = r
             /\ payload' = parsed.story
             /\ files' = parsed.files
             /\ reads' = [i \in 1..Len(parsed.files) |-> 0]
             /\ closes' = [i \in 1..Len(parsed.files) |-> 0]
             /\ epc' = "idle"
             /\ eidx' = 1
             /\ context_lines' = <<>>
             /\ eerror' = NoError
             /\ jpc' = "idle"
             /\ story' = <<>>
             /\ evidence_context' = <<>>
             /\ calls' = <<>>
             /\ responses' = <<>>
             /\ data' = JNone
             /\ result' = NoJudgment
             /\ udid' = <<>>
             /\ request_log' = NoRequestLog
             /\ exc' = NoException
             /\ IF parsed.code # 0
                THEN /\ replies' = Append(replies, Reply(parsed.code, NoJudgment))
                     /\ rpc' = "idle"
                ELSE /\ rpc' = "validate"
                     /\ UNCHANGED replies
    /\ UNCHANGED <<cvars, uvars, logs, users, slack>>

\* lines 149-153: StoryRequest(story=story); on failure the uploads are closed
ValidateStory ==
    /\ rpc = "validate"
    /\ IF StoryIsValid(payload)
       THEN /\ rpc' = "evidence"
            /\ epc' = "start"
            /\ UNCHANGED <<closes, replies>>
       ELSE /\ closes' = CloseFiles(files, closes).closes
            /\ replies' = Append(replies, Reply(422, NoJudgment))
            /\ rpc' = "idle"
            /\ UNCHANGED epc
    /\ UNCHANGED <<cvars, uvars, jvars, files, eidx, reads, context_lines, eerror,
                   request, payload, udid, request_log, exc, logs, users, slack>>

\* lines 155-158: build_evidence_context has returned or raised
EvidenceEnds ==
    /\ rpc = "evidence"
    /\ epc \in {"returned", "raised"}
    /\ IF epc = "returned"
       THEN /\ rpc' = "accepted"
            /\ UNCHANGED replies
       ELSE /\ replies' = Append(replies,
                              Reply(IF IsValidationError(eerror) THEN 422 ELSE 500, NoJudgment))
            /\ rpc' = "idle"
    /\ UNCHANGED <<cvars, uvars, jvars, evars, request, payload, udid, request_log, exc,
                   logs, users, slack>>

\* lines 160-172: the user is upserted and the log row committed as processing
CommitProcessing ==
    /\ rpc = "accepted"
    /\ \E u \in {ExtractUdid(request.udid_header)} :
         \E log \in {NewRequestLog(Len(logs) + 1, u, payload, context_lines, clock)} :
             /\ udid' = u
             /\ users' = UpsertUser(users, u, clock)
             /\ request_log' = log
             /\ logs' = Commit(logs, log)
    /\ rpc' = "received"
    /\ UNCHANGED <<cvars, uvars, jvars, evars, request, payload, exc, slack, replies>>

\* lines 173-187, before the try block: session.refresh(request_log) reloads the
\* row, and a failure of it leaves the handler; then the 'received' event is
\* scheduled
ScheduleReceived ==
    /\ rpc = "received"
    /\ \E reload \in ReloadOutcomes :
         IF reload # NoException
         THEN /\ exc' = reload
              /\ replies' = Append(replies, Reply(500, NoJudgment))
              /\ rpc' = "idle"
              /\ UNCHANGED slack
         ELSE /\ slack' = Append(slack, SlackEvent("received", request_log, "processing", Null))
              /\ rpc' = "invoke"
              /\ UNCHANGED <<exc, replies>>
    /\ UNCHANGED <<cvars, uvars, jvars, evars, request, payload, udid, request_log, logs, users>>

\* lines 190-191: judge_story is called
InvokeJudge ==
    /\ rpc = "invoke"
    /\ jpc' = "start"
    /\ story' = payload
    /\ evidence_context' = context_lines
    /\ rpc' = "judging"
    /\ UNCHANGED <<cvars, uvars, calls, responses, data, result, evars,
                   request, payload, udid, request_log, exc, dvars>>

\* lines 191-202: judge_story returned; the outcome is set and committed
JudgeReturns ==
    /\ rpc = "judging"
    /\ jpc = "done"
    /\ \E log \in {WithResult(request_log, result)} :
         /\ request_log' = log
         /\ logs' = Commit(logs, log)
    /\ rpc' = "committed"
    /\ UNCHANGED <<cvars, uvars, jvars, evars, request, payload, udid, exc, users, slack, replies>>

\* lines 191, 220: judge_story raised; the except block is entered
JudgeRaises ==
    /\ rpc = "judging"
    /\ jpc = "raised"
    /\ exc' = IF responses[Len(responses)].kind = "nochoices" THEN IndexError
              ELSE RecursionError
    /\ rpc' = "except"
    /\ UNCHANGED <<cvars, uvars, jvars, evars, request, payload, udid, request_log, dvars>>

\* lines 203-219, inside the try block: the 'completed' event is scheduled and the
\* result returned. The arguments read request_log.request_uuid, .status and
\* .error_message, which the commit of line 202 expired: the read reloads the row,
\* and a reload that fails raises before the event is scheduled
ScheduleCompleted ==
    /\ rpc = "committed"
    /\ \E reload \in ReloadOutcomes :
         IF reload # NoException
         THEN /\ exc' = reload
              /\ rpc' = "except"
              /\ UNCHANGED <<slack, replies>>
         ELSE /\ slack' = Append(slack, SlackEvent("completed", request_log,
                                     request_log.status, request_log.error_message))
              /\ replies' = Append(replies, Reply(200, result))
              /\ rpc' = "idle"
              /\ UNCHANGED exc
    /\ UNCHANGED <<cvars, uvars, jvars, evars, request, payload, udid, request_log, logs, users>>

\* lines 220-225: the except block marks the log failed and commits
ExceptCommit ==
    /\ rpc = "except"
    /\ \E log \in {WithException(request_log, exc)} :
         /\ request_log' = log
         /\ logs' = Commit(logs, log)
    /\ rpc' = "except_committed"
    /\ UNCHANGED <<cvars, uvars, jvars, evars, request, payload, udid, exc, users, slack, replies>>

\* lines 226-241: the 'failed' event is scheduled and the exception raised again
ExceptRaise ==
    /\ rpc = "except_committed"
    /\ slack' = Append(slack, SlackEvent("failed", request_log, "failed",
                           request_log.error_message))
    /\ replies' = Append(replies, Reply(500, NoJudgment))
    /\ rpc' = "idle"
    /\ UNCHANGED <<cvars, uvars, jvars, evars, request, payload, udid, request_log, exc, logs, users>>

\* ------------------------------------------------------ /user/login and the clock

UDID_MIN_LENGTH == 8
UDID_MAX_LENGTH == 64
\* the field constraints of UserLoginRequest.udid
UdidIsValid(u) == Len(u) >= UDID_MIN_LENGTH /\ Len(u) <= UDID_MAX_LENGTH

\* a row is added at every login
MutLoginAlwaysInserts(table, u, now) == Append(table, UserRow(Len(table) + 1, u, now))

\* login, lines 20-30: the row is inserted, or its last_login_at set to now
LoginUpsert(table, u, now) ==
    IF FindUser(table, u) = {}
    THEN Append(table, UserRow(Len(table) + 1, u, now))
    ELSE [i \in 1..Len(table) |->
            IF i = (CHOOSE k \in FindUser(table, u) : \A m \in FindUser(table, u) : k <= m)
            THEN [table[i] EXCEPT !.last_login_at = now]
            ELSE table[i]]
\* the row login reads back (line 31): the one it inserted or updated
LoginRow(table, u) ==
    table[CHOOSE k \in FindUser(table, u) : \A m \in FindUser(table, u) : k <= m]
\* UserLoginResponse, with the udid as it was sent
LoginResponse(sent, code, row) ==
    [sent |-> sent, code |-> code, id |-> row.id, udid |-> row.udid,
     created_at |-> row.created_at, last_login_at |-> row.last_login_at]

\* the udids the clients log in with
LoginUdids == {UDID_1, <<" ">> \o UDID_1 \o <<" ">>, UDID_2, <<"u", "d", "i", "d">>}
\* the number of /user/login calls
MaxLogins == 3
\* the latest time of the clock
MaxClock == 1

\* POST /user/login, one call from validation to response (lines 14-32)
Login ==
    /\ Len(logins) < MaxLogins
    /\ \E sent \in LoginUdids :
         IF ~UdidIsValid(sent)
         THEN /\ logins' = Append(logins, LoginResponse(sent, 422, UserRow(0, <<>>, 0)))
              /\ UNCHANGED users
         ELSE \E table \in {LoginUpsert(users, Strip(sent), clock)} :
                /\ users' = table
                /\ logins' = Append(logins, LoginResponse(sent, 200, LoginRow(table, Strip(sent))))
    /\ UNCHANGED <<cvars, jvars, evars, hvars, logs, slack, replies, clock, delivered, workers>>

\* time passes between two requests: datetime.utcnow() does not go back, and the
\* reads of the clock within one request are taken as one instant
Tick ==
    /\ rpc = "idle"
    /\ clock < MaxClock
    /\ clock' = clock + 1
    /\ UNCHANGED <<cvars, jvars, evars, rvars, logins, delivered, workers>>

\* how a task of _send_judge_log_to_slack can go: no token is configured (lines
\* 80-82), the message is posted (109-114), or send_slack_message raises
SendOutcomes == {"no_token", "posted", "raised"}
\* how the task ends: the exception of send_slack_message is caught (115-116)
SendEnds(outcome) == "returned"

\* the event loop runs the oldest scheduled task (line 121) while the handler
\* waits for the backend or after it has answered; the task touches neither the
\* session nor the response
SendJudgeLogToSlack ==
    /\ delivered < Len(slack)
    /\ rpc = "idle" \/ jpc \in {"primary", "retry"}
    /\ \E outcome \in SendOutcomes : SendEnds(outcome) = "returned"
    /\ delivered' = delivered + 1
    /\ UNCHANGED <<cvars, jvars, evars, rvars, clock, logins, workers>>

RouterNext ==
    \/ Receive
    \/ ValidateStory
    \/ EvidenceEnds
    \/ CommitProcessing
    \/ ScheduleReceived
    \/ InvokeJudge
    \/ JudgeReturns
    \/ JudgeRaises
    \/ ScheduleCompleted
    \/ ExceptCommit
    \/ ExceptRaise

\* ------------------------------------------------------ specifications

IdleJudge ==
    /\ jpc = "idle"
    /\ story = <<>>
    /\ evidence_context = <<>>
    /\ calls = <<>>
    /\ responses = <<>>
    /\ data = JNone
    /\ result = NoJudgment

IdleEvidence ==
    /\ epc = "idle"
    /\ files = <<>>
    /\ eidx = 1
    /\ reads = <<>>
    /\ closes = <<>>
    /\ context_lines = <<>>
    /\ eerror = NoError

\* judge_story called once, on any story, with and without a credential
InitJudge ==
    /\ api_key \in BOOLEAN
    /\ backend = JudgeOutcomes
    /\ jpc = "start"
    /\ story \in Stories
    /\ evidence_context \in EvidenceContexts
    /\ calls = <<>>
    /\ responses = <<>>
    /\ data = JNone
    /\ result = NoJudgment
    /\ IdleEvidence
    /\ IdleRouter
NextJudge == JudgeNext
SpecJudge == InitJudge /\ [][NextJudge]_vars

\* ------------------------------------------------------ judge_story: properties

\* the JSON object a response yields, JNone when it is no message or yields none
Recovered(out) ==
    IF out.kind # "message" THEN JNone
    ELSE CHOOSE res \in
             {IF whole # JNone THEN whole ELSE ExtractJson(ExtractMessageText(out.content))
              : whole \in {SafeJsonLoads(ExtractMessageText(out.content))}} : TRUE
\* the response carries a message and its text yields a JSON object / yields none
Parsed(out) == out.kind = "message" /\ Recovered(out) # JNone
Unparseable(out) == out.kind = "message" /\ Recovered(out) = JNone
LastResponse == responses[Len(responses)]

\* C1: when the text of the primary response yields no JSON object, exactly one
\* retry call is made, after the primary call has returned; the primary call
\* carries response_format and the retry does not; both use the same model and
\* the same user prompt; no run makes more than two calls.
C1_RetryPolicy ==
    /\ Len(calls) <= 2
    /\ Len(calls) <= Len(responses) + 1
    /\ (Len(responses) >= 1 /\ Unparseable(responses[1])) => Len(calls) = 2
    /\ Len(calls) >= 1 =>
          /\ calls[1].has_response_format
          /\ calls[1].model = OPENAI_MODEL
    /\ Len(calls) = 2 =>
          /\ Len(responses) >= 1
          /\ ~calls[2].has_response_format
          /\ calls[2].model = calls[1].model
          /\ calls[2].user_prompt = calls[1].user_prompt
C1_Witness ==
    /\ jpc = "done"
    /\ Len(responses) = 2
    /\ Unparseable(responses[1])
    /\ Len(calls) = 2

\* C2 (as claimed): a response from which a JSON object is recovered, whatever its
\* keys and however many, is never followed by another call, and judge_story
\* returns the normalisation of that object.
C2_AnyParseIsNormalized ==
    /\ (Len(responses) >= 1 /\ Parsed(responses[1])) =>
          /\ Len(calls) = 1
          /\ jpc = "done"
          /\ result = NormalizeResponse(Recovered(responses[1]), Strip(story))
    /\ (Len(responses) = 2 /\ Parsed(responses[2])) =>
          /\ jpc = "done"
          /\ result = NormalizeResponse(Recovered(responses[2]), Strip(story))

\* C3: a call that raises, primary or retry, is the last call, and judge_story
\* returns the call-failed fallback with no crimes.
C3_CallErrorNotRetried ==
    \A i \in 1..Len(responses) :
        responses[i].kind = "raise" =>
            /\ Len(calls) = i
            /\ Len(responses) = i
            /\ jpc = "done"
            /\ result.verdict = VERDICT_CALL_FAILED
            /\ result.possible_crimes = <<>>
C3_Witness ==
    /\ jpc = "done"
    /\ Len(calls) = 1
    /\ responses = <<OutRaise>>

C5_EmptyStory ==
    Strip(story) = <<>> =>
        /\ calls = <<>>
        /\ jpc \in {"start", "done"}
        /\ jpc = "done" =>
              /\ result.verdict = VERDICT_EMPTY
              /\ result.possible_crimes = <<>>
C5_Witness ==
    /\ jpc = "done"
    /\ story = <<" ", "\n">>
    /\ ~api_key
    /\ result.verdict = VERDICT_EMPTY

\* C6: without a credential a non-empty story gets the mock judgment: no crimes,
\* the mock marker in the verdict, the legal marker in the disclaimer, no call.
C6_NoCredential ==
    (~api_key /\ Strip(story) # <<>>) =>
        /\ calls = <<>>
        /\ jpc \in {"start", "done"}
        /\ jpc = "done" =>
              /\ result.possible_crimes = <<>>
              /\ Contains(result.verdict, MOCK_MARKER)
              /\ Contains(result.disclaimer, MARKER)
C6_Witness ==
    /\ jpc = "done"
    /\ ~api_key
    /\ Strip(story) # <<>>
    /\ Contains(result.verdict, MOCK_MARKER)

\* the recovered object gives its disclaimer as a string that is not blank and
\* lacks the marker
LacksMarker(obj) ==
    /\ obj # JNone
    /\ Get(obj, K_DISCLAIMER).t = "str"
    /\ Strip(Get(obj, K_DISCLAIMER).s) # <<>>
    /\ ~Contains(Strip(Get(obj, K_DISCLAIMER).s), MARKER)

\* C7: every Judgment judge_story returns has the legal marker in its
\* disclaimer; when the disclaimer of the recovered object is a string that is not
\* blank and lacks the marker, the result is that text, trimmed, with the
\* parenthetical marker appended.
C7_DisclaimerMarker ==
    jpc = "done" =>
        /\ Contains(result.disclaimer, MARKER)
        /\ (Len(responses) >= 1 /\ LacksMarker(Recovered(LastResponse))) =>
              result.disclaimer =
                  Strip(Get(Recovered(LastResponse), K_DISCLAIMER).s) \o MARKER_SUFFIX
C7_Witness ==
    /\ jpc = "done"
    /\ Len(responses) = 2
    /\ LacksMarker(Recovered(LastResponse))
    /\ Contains(result.disclaimer, MARKER)

\* _normalize_response called once, on any object
NormalizeCall ==
    /\ jpc = "normalize"
    /\ result' = NormalizeResponse(data, story)
    /\ jpc' = "done"
    /\ UNCHANGED <<cvars, uvars, story, evidence_context, calls, responses, data, evars, rvars>>
InitNormalize ==
    /\ api_key = TRUE
    /\ backend = {}
    /\ jpc = "normalize"
    /\ story = <<"c", "h", "i">>
    /\ evidence_context = <<>>
    /\ calls = <<>>
    /\ responses = <<>>
    /\ data \in NormalizeObjects
    /\ result = NoJudgment
    /\ IdleEvidence
    /\ IdleRouter
SpecNormalize == InitNormalize /\ [][NormalizeCall]_vars

\* ------------------------------------------------------ normalisation: properties

\* the source array of possible_crimes: empty when the field is missing or no array
SourceItems(obj) ==
    IF Get(obj, K_CRIMES).t = "arr" THEN Get(obj, K_CRIMES).a ELSE <<>>
\* the text of a field of an entry, trimmed: a missing or falsy value has none, a
\* value that is no string counts by its str()
FieldText(item, k) == StrOr(Get(item, k), <<>>)
\* the entry is an object with a title and a basis that are not empty when trimmed
Usable(item) ==
    /\ item.t = "obj"
    /\ FieldText(item, K_TITLE) # <<>>
    /\ FieldText(item, K_BASIS) # <<>>
UsableAt(obj) == {i \in 1..Len(SourceItems(obj)) : Usable(SourceItems(obj)[i])}
\* the source position of the j-th usable entry
NthUsable(obj, j) ==
    CHOOSE i \in UsableAt(obj) : Cardinality({k \in UsableAt(obj) : k <= i}) = j

\* C8: possible_crimes of the normalised Judgment is the source array with the
\* unusable entries dropped, in order: an entry is dropped exactly when it is no
\* object or its title or basis is missing or empty after trimming; every entry
\* kept has its trimmed, non-empty title and basis; the list is empty when the
\* field is missing or no array.
C8_CrimesSubsequence ==
    jpc = "done" =>
        /\ Len(result.possible_crimes) = Cardinality(UsableAt(data))
        /\ \A j \in 1..Len(result.possible_crimes) :
              /\ result.possible_crimes[j].title
                    = FieldText(SourceItems(data)[NthUsable(data, j)], K_TITLE)
              /\ result.possible_crimes[j].basis
                    = FieldText(SourceItems(data)[NthUsable(data, j)], K_BASIS)
              /\ result.possible_crimes[j].title # <<>>
              /\ result.possible_crimes[j].basis # <<>>
              /\ Strip(result.possible_crimes[j].title) = result.possible_crimes[j].title
              /\ Strip(result.possible_crimes[j].basis) = result.possible_crimes[j].basis
        /\ Get(data, K_CRIMES).t # "arr" => result.possible_crimes = <<>>
C8_Witness ==
    /\ jpc = "done"
    /\ Len(SourceItems(data)) = 2
    /\ UsableAt(data) = {2}
    /\ SourceItems(data)[1].t = "obj"
    /\ Len(result.possible_crimes) = 1

\* build_evidence_context called once, on any sequence of files
InitEvidence ==
    /\ api_key = TRUE
    /\ backend = {}
    /\ IdleJudge
    /\ epc = "start"
    /\ files \in SeqsUpTo(FileKinds, MaxFiles)
    /\ eidx = 1
    /\ reads = [i \in 1..Len(files) |-> 0]
    /\ closes = [i \in 1..Len(files) |-> 0]
    /\ IdleRouter
    /\ context_lines = <<>>
    /\ eerror = NoError
SpecEvidence == InitEvidence /\ [][EvidenceNext]_vars

\* ------------------------------------------------------ evidence: properties

\* C10 (as claimed): when build_evidence_context exits, by return or by any
\* exception, close has been attempted on every file it was given, and no
\* exception of a close has escaped.
C10_AllFilesClosed ==
    epc \in {"returned", "raised"} =>
        /\ \A i \in 1..Len(files) : closes[i] >= 1
        /\ eerror.kind # "close_error"

\* ------------------------------------------------------ evidence: the result

\* the extension of the file's name, as the validator takes it
ExtensionOf(file) == ExtractExtension(SanitizeFilename(file.filename))
\* the file breaks a rule: its extension, an empty content, or its size
BreaksRule(file) ==
    \/ ExtensionOf(file) \notin ALLOWED_EVIDENCE_EXTENSIONS
    \/ file.size = 0
    \/ file.size > EVIDENCE_MAX_FILE_BYTES
\* the error of a file that breaks a rule
ErrorOf(file) ==
    IF ExtensionOf(file) \notin ALLOWED_EVIDENCE_EXTENSIONS
    THEN ValidationError("unsupported", SanitizeFilename(file.filename))
    ELSE IF file.size = 0
    THEN ValidationError("empty", SanitizeFilename(file.filename))
    ELSE ValidationError("too_large", SanitizeFilename(file.filename))
\* the positions of the files that break a rule
Breaking(fs) == {i \in 1..Len(fs) : BreaksRule(fs[i])}
FirstBreaking(fs) == CHOOSE i \in Breaking(fs) : \A j \in Breaking(fs) : i <= j

\* C11: when every read that happens succeeds, build_evidence_context raises the
\* max-files error, with no file read, for more than 3 files; else the error of
\* the first file, in input order, that has a disallowed extension, no content or
\* more than 8 MiB, naming its sanitized filename; else it returns one line per
\* file, in order, line i starting with "i. " and containing the sanitized
\* filename of file i. No files: the empty list.
C11_EvidenceResult ==
    (epc \in {"returned", "raised"} /\ eerror.kind # "read_error") =>
        IF Len(files) > EVIDENCE_MAX_FILES
        THEN /\ epc = "raised"
             /\ eerror = ValidationError("too_many", <<>>)
             /\ \A i \in 1..Len(files) : reads[i] = 0
        ELSE IF Breaking(files) # {}
        THEN /\ epc = "raised"
             /\ eerror = ErrorOf(files[FirstBreaking(files)])
        ELSE /\ epc = "returned"
             /\ Len(context_lines) = Len(files)
             /\ \A i \in 1..Len(files) :
                  /\ StartsWith(context_lines[i], <<ToString(i), ".", " ">>)
                  /\ Contains(context_lines[i], SanitizeFilename(files[i].filename))
C11_Witness ==
    /\ epc = "returned"
    /\ files = <<F_PHOTO, F_PDF>>
    /\ Len(context_lines) = 2
    /\ Contains(context_lines[2], <<"document", ".", "PDF">>)

\* C12: a file with a disallowed extension is never read; once a file has raised,
\* no later file has been read, every earlier file has been read once, nothing is
\* returned, and the error raised at the end is the one of that file.
C12_FailFast ==
    /\ \A i \in 1..Len(files) :
         ExtensionOf(files[i]) \notin ALLOWED_EVIDENCE_EXTENSIONS => reads[i] = 0
    /\ eerror.kind \in {"unsupported", "empty", "too_large", "read_error"} =>
         /\ epc \in {"finally", "raised"}
         /\ \A j \in 1..Len(files) : j > eidx => reads[j] = 0
         /\ \A j \in 1..Len(files) : j < eidx => reads[j] = 1 /\ ~BreaksRule(files[j])
         /\ IsValidationError(eerror) => eerror = ErrorOf(files[eidx])
C12_Witness ==
    /\ epc = "raised"
    /\ Len(files) = 3
    /\ eidx = 2
    /\ eerror.kind = "empty"
    /\ ~BreaksRule(files[3])
    /\ ~files[3].read_raises
    /\ reads = <<1, 1, 0>>

\* ------------------------------------------------------ /judge: the server

\* the server with no request yet, with and without a credential
Init ==
    /\ api_key \in BOOLEAN
    /\ backend = RouterOutcomes
    /\ IdleJudge
    /\ IdleEvidence
    /\ IdleRouter
Next == RouterNext \/ JudgeNext \/ EvidenceNext \/ Tick
Spec == Init /\ [][Next]_vars

Terminal(status) == status \in {"completed", "failed"}

\* C9: a validated request adds exactly one row, committed as processing before
\* judge_story is called; the committed status of a row changes only from
\* processing to completed or failed, after judge_story has returned or raised; a
\* row that is completed or failed keeps its status whatever happens later.
C9_RequestLogLifecycle ==
    [][/\ Len(logs') >= Len(logs)
       /\ Len(logs') > Len(logs) =>
            /\ rpc = "accepted"
            /\ Len(logs') = Len(logs) + 1
            /\ logs'[Len(logs')].status = "processing"
       /\ (jpc # "start" /\ jpc' = "start") =>
            /\ request_log.id = Len(logs)
            /\ logs[request_log.id].status = "processing"
       /\ \A i \in 1..Len(logs) :
            logs'[i].status # logs[i].status =>
                /\ logs[i].status = "processing"
                /\ Terminal(logs'[i].status)
                /\ jpc \in {"done", "raised"}
      ]_vars

\* ------------------------------------------------------ /judge: properties

Last(q) == q[Len(q)]
\* the length is outside 3..5000
BadLength(s) == Len(s) < STORY_MIN_LENGTH \/ Len(s) > STORY_MAX_LENGTH
\* the request's body cannot be parsed as JSON
Unparseable400(r) == ~r.multipart /\ r.body = "not_json"
\* the request has no story of 3..5000 characters: none at all, or one whose
\* length as sent or (multipart) as trimmed is outside the range
StoryViolates(r) ==
    IF r.multipart
    THEN \/ ~r.has_story
         \/ BadLength(r.story)
         \/ BadLength(Strip(r.story))
    ELSE r.body = "not_story" \/ (r.body = "story" /\ BadLength(r.story))
\* the request's uploads break the evidence rules
EvidenceViolates(r) ==
    /\ r.multipart
    /\ \/ Len(UploadsOf(r.items)) > EVIDENCE_MAX_FILES
       \/ Breaking(UploadsOf(r.items)) # {}
InputViolates(r) ==
    r # NoRequest /\ (Unparseable400(r) \/ StoryViolates(r) \/ EvidenceViolates(r))

\* C13: a request whose body cannot be parsed, whose story breaks the length rule
\* or whose evidence breaks the evidence rules never gets past validation: while
\* it is handled no log row, user row or Slack event is added, judge_story is not
\* called and no backend call is made, and, unless a read of a file failed, it is
\* answered 400 (unparseable body) or 422.
C13_InvalidInputStopsEarly ==
    /\ [](InputViolates(request) =>
            /\ rpc \in {"idle", "validate", "evidence"}
            /\ request_log = NoRequestLog
            /\ udid = <<>>
            /\ jpc = "idle"
            /\ calls = <<>>
            /\ (rpc = "idle" /\ eerror.kind # "read_error") =>
                  /\ Last(replies).result = NoJudgment
                  /\ Last(replies).code = IF Unparseable400(request) THEN 400 ELSE 422)
    /\ [][InputViolates(request') =>
            /\ logs' = logs
            /\ users' = users
            /\ slack' = slack]_vars
C13_Witness ==
    /\ rpc = "idle"
    /\ Len(replies) = 2
    /\ replies[1].code = 200
    /\ replies[2].code = 422
    /\ EvidenceViolates(request)
    /\ ~StoryViolates(request)
    /\ Len(logs) = 1
    /\ Len(slack) = 2

\* the committed row of the request being handled
CurrentRow == logs[request_log.id]
\* judge_story has returned and nothing has raised since
ReturnedCleanly == jpc = "done" /\ exc = NoException /\ rpc \in {"committed", "idle"}

\* C14: when judge_story returns a Judgment (and nothing raises afterwards), the
\* row is committed as failed, with the verdict as error message, if the verdict
\* is the call-failed or the parse-failed fallback message, and as completed
\* otherwise; summary, verdict, the Judgment and completed_at are set, and the
\* answer is 200 with the Judgment.
C14_PersistedOutcome ==
    ReturnedCleanly =>
        /\ IF result.verdict \in {VERDICT_CALL_FAILED, VERDICT_PARSE_FAILED}
           THEN /\ CurrentRow.status = "failed"
                /\ CurrentRow.error_message = Text(result.verdict)
           ELSE CurrentRow.status = "completed"
        /\ CurrentRow.result_summary = Text(result.summary)
        /\ CurrentRow.result_verdict = Text(result.verdict)
        /\ CurrentRow.result_json = result
        /\ CurrentRow.completed_at
        /\ rpc = "idle" => Last(replies) = Reply(200, result)

\* an exception was raised after the row of the request was committed
RaisedAfterCommit == exc # NoException /\ request_log # NoRequestLog

\* C15: when an exception is raised after the processing row was committed, the
\* request ends with the row failed, its error message the text of the exception
\* cut to at most 2000 characters, completed_at set, a 'failed' event scheduled
\* last, and the exception raised again: the answer is a 500 with no Judgment.
C15_ExceptionMarksFailed ==
    (rpc = "idle" /\ RaisedAfterCommit) =>
        /\ CurrentRow.status = "failed"
        /\ ~CurrentRow.error_message.null
        /\ Len(CurrentRow.error_message.text) <= ERROR_MESSAGE_MAX_CHARS
        /\ CurrentRow.error_message.text
             = SubSeq(exc.text, 1, Len(CurrentRow.error_message.text))
        /\ Len(exc.text) <= ERROR_MESSAGE_MAX_CHARS =>
             CurrentRow.error_message.text = exc.text
        /\ Len(exc.text) > ERROR_MESSAGE_MAX_CHARS =>
             Len(CurrentRow.error_message.text) = ERROR_MESSAGE_MAX_CHARS
        /\ CurrentRow.completed_at
        /\ slack # <<>>
        /\ Last(slack).event = "failed"
        /\ Last(slack).request = request_log.id
        /\ Last(replies) = Reply(500, NoJudgment)

\* ------------------------------------------------------ /user/login: the server

\* the server with no user yet; only /user/login is called
InitUsers ==
    /\ api_key = FALSE
    /\ backend = {}
    /\ IdleJudge
    /\ IdleEvidence
    /\ IdleRouter
NextUsers == Login \/ Tick
SpecUsers == InitUsers /\ [][NextUsers]_vars

\* C16: of two answered logins with the same udid the second returns the same
\* id, the same created_at and a last_login_at that is not earlier; the table
\* holds exactly one row for the udid of every answered login.
C16_LoginUpsert ==
    /\ \A i \in 1..Len(logins) : \A j \in 1..Len(logins) :
         (i < j /\ logins[i].code = 200 /\ logins[j].code = 200
                /\ logins[i].sent = logins[j].sent) =>
             /\ logins[j].id = logins[i].id
             /\ logins[j].created_at = logins[i].created_at
             /\ logins[j].last_login_at >= logins[i].last_login_at
    /\ \A i \in 1..Len(logins) :
         logins[i].code = 200 =>
             Cardinality({k \in 1..Len(users) : users[k].udid = logins[i].udid}) = 1
C16_Witness ==
    /\ Len(logins) = 3
    /\ logins[1].sent = UDID_1
    /\ logins[2].sent = UDID_2
    /\ logins[3].sent = UDID_1
    /\ logins[3].id = 1
    /\ logins[3].last_login_at > logins[1].last_login_at
    /\ Len(users) = 2

\* the step is a sight of udid u: an accepted /judge request reaching its upsert
\* with that identity, or an answered login with it
SightOf(u) ==
    \/ rpc = "accepted" /\ rpc' = "received" /\ udid' = u
    \/ Len(logins') > Len(logins) /\ Last(logins').code = 200 /\ Last(logins').udid = u
\* the udids a step can be a sight of
SeenUdids == {ANONYMOUS, UDID_1, UDID_2}

\* C17: every sight of a udid, through /user/login or through an accepted /judge
\* request, leaves one row for it whose last_login_at is the time of the sight;
\* the row is created, with that time as created_at, when the udid had none.
C17_RefreshOnEverySight ==
    [][\A u \in SeenUdids :
         SightOf(u) =>
            /\ Cardinality(FindUser(users', u)) = 1
            /\ \A k \in FindUser(users', u) :
                 /\ users'[k].last_login_at = clock
                 /\ FindUser(users, u) = {} => users'[k].created_at = clock
      ]_vars

\* ------------------------------------------- /judge: the notifications

\* what the backend answers in the runs that follow the notifications
NotifyOutcomes ==
    {OutNoChoices, OutMessage(ContentStr(T_FULL)), OutMessage(ContentStr(T_PROSE))}

InitNotify ==
    /\ api_key \in BOOLEAN
    /\ backend = NotifyOutcomes
    /\ IdleJudge
    /\ IdleEvidence
    /\ IdleRouter
NextNotify == RouterNext \/ JudgeNext \/ EvidenceNext \/ Tick \/ SendJudgeLogToSlack
SpecNotify == InitNotify /\ [][NextNotify]_vars

\* the events scheduled for the request whose row is i, in order
EventsOf(i) == SelectSeq(slack, LAMBDA e : e.request = i)
\* the request whose row is i has been answered
Answered(i) == i < Len(logs) \/ rpc = "idle"
\* the event a step schedules
Scheduled == Last(slack')
\* the step schedules one event, of the request being handled, whose row is
\* committed in the state the event announces
SchedulesInOrder ==
    /\ slack' = Append(slack, Scheduled)
    /\ Scheduled.request = request_log.id
    /\ request_log.id \in 1..Len(logs)
    /\ CASE Scheduled.event = "received" ->
               CurrentRow.status = "processing" /\ jpc = "idle"
         [] Scheduled.event = "completed" ->
               /\ jpc = "done"
               /\ exc = NoException
               /\ Terminal(CurrentRow.status)
               /\ Scheduled.status = CurrentRow.status
         [] Scheduled.event = "failed" ->
               exc # NoException /\ CurrentRow.status = "failed"
         [] OTHER -> FALSE
\* a Slack task has run and left the answers, the rows and the events alone
TaskChangesNothing == logs' = logs /\ replies' = replies /\ slack' = slack

\* C18: every validated request (one with a row) gets exactly one 'received'
\* event, scheduled after the processing row is committed and before judge_story
\* is called, then exactly one terminal event, 'completed' when judge_story
\* returned and 'failed' when an exception was raised, scheduled after the
\* terminal status is committed; nothing else is scheduled; and a Slack task,
\* however it goes, changes neither the answers nor the rows.
C18_NotificationOrdering ==
    /\ [](/\ \A i \in 1..Len(logs) :
              \E ev \in {EventsOf(i)} :
                 /\ Len(ev) <= 2
                 /\ (Len(ev) >= 1) => (ev[1].event = "received")
                 /\ (Len(ev) = 2) => (ev[2].event \in {"completed", "failed"})
                 /\ Answered(i) => (Len(ev) = 2)
          /\ \A k \in 1..Len(slack) : slack[k].request \in 1..Len(logs)
          /\ (rpc = "judging") => (Len(EventsOf(request_log.id)) = 1))
    /\ [][/\ (slack' # slack) => SchedulesInOrder
          /\ (delivered' # delivered) => TaskChangesNothing
         ]_vars

\* ------------------------------------------- the recovery of the JSON object

RECURSIVE Nest(_)
\* n objects, one inside the other, around a number
Nest(n) == IF n = 0 THEN <<"7">> ELSE Braces(Member(<<"a">>, Nest(n - 1)))
\* n arrays opened and never closed
Opened(n) == [i \in 1..n |-> "["]

\* the texts of a response: something before, a body, something after
RecoverPrefixes ==
    {<<>>, <<" ", "\n">>, <<"gyeolgwaimnida.", " ">>, <<"~~~", "json", "\n">>, <<"{">>,
     <<"[">>, <<"{">> \o Lit(<<"a">>) \o <<":">>}
RecoverBodies ==
    {<<>>, T_EMPTY_OBJECT, T_OTHER_KEY, T_FULL, T_LIST, T_PROSE, T_CUT, Lit(T_EMPTY_OBJECT),
     Nest(MaxNesting), Nest(MaxNesting + 1), Opened(MaxNesting + 1)}
RecoverSuffixes ==
    {<<>>, <<"\n", "~~~">>, <<"}">>, <<"]">>, <<" ", "kkeut">>, <<" ">> \o T_OTHER_KEY}
RecoverTexts ==
    {pre \o body \o post :
        pre \in RecoverPrefixes, body \in RecoverBodies, post \in RecoverSuffixes}

\* lines 264-266 on one response: the text is taken and the object recovered
RecoverCall ==
    /\ jpc = "recover"
    /\ \E parsed \in {ParseReply(ExtractMessageText(responses[1].content))} :
         IF parsed = JRaise
         THEN jpc' = "raised" /\ UNCHANGED data
         ELSE jpc' = "done" /\ data' = parsed
    /\ UNCHANGED <<cvars, uvars, story, evidence_context, calls, responses, result, evars, rvars>>
InitRecover ==
    /\ api_key = TRUE
    /\ backend = {}
    /\ jpc = "recover"
    /\ story = <<"c", "h", "i">>
    /\ evidence_context = <<>>
    /\ calls = <<>>
    /\ responses \in {<<OutMessage(ContentStr(t))>> : t \in RecoverTexts}
    /\ data = JNone
    /\ result = NoJudgment
    /\ IdleEvidence
    /\ IdleRouter
SpecRecover == InitRecover /\ [][RecoverCall]_vars

\* the whole text is one JSON object
WholeObject(t) == JsonLoads(t).ok /\ IsDict(JsonLoads(t).v)
\* the positions of a "{" from which one JSON object is decoded
ObjectPositions(t) ==
    {i \in 1..Len(t) : t[i] = "{" /\ ParseValue(t, i, 0).ok /\ IsDict(ParseValue(t, i, 0).v)}
Leftmost(S) == CHOOSE i \in S : \A j \in S : i <= j

\* C19: the recovery of any response text ends without an exception; its result
\* is the object the whole text is when the whole text is one JSON object,
\* otherwise the object decoded at the leftmost "{" from which one is decoded,
\* and it is None exactly when no "{" yields an object.
C19_JsonRecovery ==
    jpc # "recover" =>
        \E t \in {responses[1].content.s} :
           /\ jpc = "done"
           /\ WholeObject(t) => data = JsonLoads(t).v
           /\ (~WholeObject(t) /\ ObjectPositions(t) # {}) =>
                 data = ParseValue(t, Leftmost(ObjectPositions(t)), 0).v
           /\ (data = JNone) <=> (ObjectPositions(t) = {})

\* ------------------------------------------- _normalize_response: the severity

\* the words of each degree, in lower case
LowWords == {"gyeongmi", "low", "minor", "najeum", "gyeongmiham", "gabyeoum"}
MediumWords == {"junggan", "medium", "moderate", "botong", "junggan-jeongdo"}
HighWords == {"jungdae", "high", "major", "severe", "critical", "nopeum", "simgak", "jungham"}
\* the value is a string that, trimmed and lower-cased, is one of the words
IsWordOf(v, words) == v.t = "str" /\ \E w \in words : Lower(Strip(v.s)) = <<w>>
\* the severity the j-th entry kept was given (null when the key is missing)
GivenSeverity(j) == Get(SourceItems(data)[NthUsable(data, j)], K_SEVERITY)

\* C20: every entry of possible_crimes of a normalised Judgment has one of the
\* three severities; a severity given as a word of a degree, whatever its case
\* and the whitespace around it, yields that degree, and any other, an empty or
\* a missing one yields medium.
C20_SeverityNormalized ==
    jpc = "done" =>
        \A j \in 1..Len(result.possible_crimes) :
           \E sev \in {result.possible_crimes[j].severity} :
              /\ sev \in {SEV_LOW, SEV_MEDIUM, SEV_HIGH}
              /\ IsWordOf(GivenSeverity(j), LowWords) => sev = SEV_LOW
              /\ IsWordOf(GivenSeverity(j), MediumWords) => sev = SEV_MEDIUM
              /\ IsWordOf(GivenSeverity(j), HighWords) => sev = SEV_HIGH
              /\ ~IsWordOf(GivenSeverity(j), LowWords \cup MediumWords \cup HighWords)
                    => sev = SEV_MEDIUM
C20_Witness ==
    /\ jpc = "done"
    /\ Len(result.possible_crimes) = 1
    /\ GivenSeverity(1) = JStr(<<" ", "CRITICAL", "\n">>)
    /\ result.possible_crimes[1].severity = SEV_HIGH

\* ------------------------------------------- /judge: the status and judge_story

\* how the run of judge_story ended (service.py lines 323-346): without a call
\* on an empty story or without a client, with the object of a reply normalised,
\* or with the fallback of a call or parse failure
OrchestratorEnd ==
    IF jpc # "done" THEN "NONE"
    ELSE IF calls = <<>>
         THEN (IF Strip(story) = <<>> THEN "EMPTY_INPUT" ELSE "NO_BACKEND_CONFIGURED")
    ELSE IF HasData(data) THEN "NORMALIZED"
    ELSE "FAILED"

\* C21: the row of a request is failed only if judge_story ended in a call or
\* parse failure or an exception was raised; when judge_story ended by
\* normalising a reply, on an empty story or without a client (and nothing
\* raised), the row is completed with no error message, whatever the verdict.
C21_StatusReflectsOrchestrator ==
    request_log # NoRequestLog =>
        /\ (CurrentRow.status = "failed") =>
              (OrchestratorEnd = "FAILED" \/ exc # NoException)
        /\ (ReturnedCleanly
               /\ OrchestratorEnd \in {"NORMALIZED", "EMPTY_INPUT", "NO_BACKEND_CONFIGURED"}) =>
              (CurrentRow.status = "completed" /\ CurrentRow.error_message = Null)

\* ------------------------------------------- the user table and several processes

\* .first() of the select (user/router.py line 20, judge/router.py line 130): the
\* position of the row found, 0 for None
SelectUser(table, u) ==
    IF FindUser(table, u) = {} THEN 0
    ELSE CHOOSE k \in FindUser(table, u) : \A m \in FindUser(table, u) : k <= m

\* session.commit() of what the request added after its select: the insert of a
\* udid that has a row by now breaks the unique index of app_user.udid
\* (user/model.py line 12) and raises; login sets last_login_at of the row it
\* found, _upsert_user leaves a row it found alone
CommitUser(table, kind, u, seen, now) ==
    IF seen = 0
    THEN IF FindUser(table, u) # {}
         THEN [table |-> table, error |-> "IntegrityError"]
         ELSE [table |-> Append(table, UserRow(Len(table) + 1, u, now)), error |-> "none"]
    ELSE IF kind = "login"
         THEN [table |-> [table EXCEPT ![seen].last_login_at = now], error |-> "none"]
         ELSE [table |-> table, error |-> "none"]

\* the udids the racing requests carry
RaceUdids == {UDID_1, UDID_2}
\* the requests one process serves
MaxServed == 2

\* a process takes a request, /user/login or /judge, and runs it up to the
\* select and the reading of the clock (login lines 19-22, _upsert_user 130-132)
WorkerSelect(w) ==
    /\ workers[w].pc = "idle"
    /\ Len(workers[w].answers) < MaxServed
    /\ \E kind \in {"login", "judge"} : \E u \in RaceUdids :
         workers' = [workers EXCEPT ![w] =
                        [@ EXCEPT !.pc = "selected", !.kind = kind, !.udid = u,
                                  !.seen = SelectUser(users, u), !.now = clock]]
    /\ UNCHANGED <<cvars, jvars, evars, rvars, clock, logins, delivered>>

\* the process commits (login lines 23-30, _upsert_user 133-134); an exception
\* of the commit is not caught by either handler: the answer is a 500
WorkerCommit(w) ==
    /\ workers[w].pc = "selected"
    /\ \E done \in {CommitUser(users, workers[w].kind, workers[w].udid,
                                workers[w].seen, workers[w].now)} :
         /\ users' = done.table
         /\ workers' = [workers EXCEPT ![w] =
                           [@ EXCEPT !.pc = "idle",
                                     !.answers = Append(@, IF done.error = "none"
                                                           THEN 200 ELSE 500)]]
    /\ UNCHANGED <<cvars, jvars, evars, hvars, logs, slack, replies, clock, logins, delivered>>

InitRace ==
    /\ api_key = FALSE
    /\ backend = {}
    /\ IdleJudge
    /\ IdleEvidence
    /\ IdleRouter
NextRace ==
    \/ \E w \in 1..MaxWorkers : WorkerSelect(w)
    \/ \E w \in 1..MaxWorkers : WorkerCommit(w)
    \/ Tick
SpecRace == InitRace /\ [][NextRace]_vars

\* no udid has two rows
OneRowPerUdid == \A u \in RaceUdids : Cardinality(FindUser(users, u)) <= 1
\* a row keeps its place, its id and its created_at
RowsKeepIdentity ==
    /\ Len(users') >= Len(users)
    /\ \A k \in 1..Len(users) :
         /\ users'[k].id = users[k].id
         /\ users'[k].udid = users[k].udid
         /\ users'[k].created_at = users[k].created_at
\* every request answered so far was answered 200
AllSucceeded ==
    \A w \in 1..MaxWorkers : \A i \in 1..Len(workers[w].answers) : workers[w].answers[i] = 200

\* C22: however the selects and commits of /user/login and /judge requests of
\* several processes interleave, no udid has two rows, a row keeps its id and
\* its created_at, and every request is answered successfully, also two requests
\* that both found no row for the same udid.
C22_UniquenessUnderInterleaving ==
    /\ [](OneRowPerUdid /\ AllSucceeded)
    /\ [][RowsKeepIdentity]_vars
====
